---- MODULE Spec2Model ----
(***************************************************************************)
(* Media index and sidecar-consistency engine of obsidian-media-companion. *)
(*                                                                         *)
(* Paths, extensions and the extension setting are character sequences, so *)
(* that suffix concatenation, substring(0, length - 3), endsWith, split,   *)
(* trim, replace and toLowerCase are computed as the code computes them.   *)
(*                                                                         *)
(* The vault (the host's file tree) is an external collaborator.  Its      *)
(* operations create / delete / rename are asynchronous: the call starts   *)
(* the operation, the file tree changes when the operation completes, and  *)
(* the matching event is dispatched synchronously at that moment.  When a  *)
(* create or rename completes and finds its target path occupied by a      *)
(* file that appeared after the call, the host either rejects the          *)
(* operation or lets it replace the file; both outcomes are modelled.      *)
(*                                                                         *)
(* Every handler runs its synchronous part atomically (JavaScript runs a   *)
(* callback to completion); each promise continuation (.then / await) is   *)
(* a task that is scheduled later, in any order with the other tasks.      *)
(*                                                                         *)
(* Spec and SpecSettings are the file tree with the mutation handlers;     *)
(* SpecRecord is one image record with update() and the query filter;      *)
(* SpecSidecar is getTags and setFrontmatterTag on their own.  Each        *)
(* specification holds the variables of the others at an idle value.       *)
(***************************************************************************)
EXTENDS Naturals, Integers, Sequences, FiniteSets, Bags, TLC

VARIABLES
    vault,        \* the file tree: path -> content, defined on existing paths
    cacheFiles,   \* the Index (Cache.files): media path -> record kind
    extensions,   \* plugin.settings.extensions
    tasks,        \* bag of pending continuations and vault operations
    hist,         \* the external events so far (bounded per specification)
    faults,       \* rejected promises and overwritten documents so far
    invocations,  \* number of mutation handler invocations so far
    mtime,        \* file.stat.mtime of the image file of the record under study
    fm,           \* the front matter of its sidecar: field -> value
    procs,        \* bag of the calls in flight on that record
    started,      \* number of calls started so far
    log,          \* what the call that finished last did
    tagsIn,       \* metadata of a sidecar handed to getTags
    tagsOut,      \* what getTags returned for it
    setOut,       \* how a direct call of setFrontmatterTag ended
    colorIn,      \* arguments handed to isColorWithinThreshold
    colorOut,     \* what isColorWithinThreshold returned for them
    filterIn,     \* a query of list filters and the record handed to testFile
    filterOut,    \* what testFile returned for them
    indexFiles,   \* Cache.files as getItems reads it: the records, in order
    queryObj,     \* the fields of one Query object and where getItems stands
    queryLog,     \* what the calls of getItems tested and returned
    updateLog,    \* the update() calls the modify handler made, per event
    plugin,       \* how far the plugin's start has come, and the handlers run
    apiIn,        \* a request to the API server and the settings it meets
    apiOut,       \* the answer to the request and what it did to the vault
    apiServer,    \* ApiServer.server, the server instances made, the platform
    gallery,      \* the gallery component: its lists, its paging, its loads
    sidecarView   \* the sidecar view: editor, saved content, pending save

treeVars == <<vault, cacheFiles, extensions, tasks, hist, faults, invocations>>

recordVars == <<mtime, fm, procs, started, log>>

sidecarVars == <<tagsIn, tagsOut, setOut>>

colorVars == <<colorIn, colorOut>>

filterVars == <<filterIn, filterOut>>

queryVars == <<indexFiles, queryObj, queryLog>>

editVars == <<updateLog>>

loadVars == <<plugin>>

apiVars == <<apiIn, apiOut>>

serverVars == <<apiServer>>

galleryVars == <<gallery>>

viewVars == <<sidecarView>>

uiVars == <<serverVars, galleryVars, viewVars>>

vars == <<treeVars, recordVars, sidecarVars, colorVars, filterVars, queryVars,
          editVars, loadVars, apiVars, uiVars>>

\* what the actions on the file tree, on a record, on a sidecar leave alone
offTree == <<recordVars, sidecarVars, colorVars, filterVars, queryVars,
    editVars, loadVars, apiVars,
    uiVars>>

offRecord == <<treeVars, sidecarVars, colorVars, filterVars, queryVars,
    editVars, loadVars, apiVars,
    uiVars>>

offSidecar == <<treeVars, mtime, procs, started, log, colorVars, filterVars,
    queryVars, editVars, loadVars, apiVars,
    uiVars>>

offColor == <<treeVars, recordVars, sidecarVars, filterVars, queryVars,
    editVars, loadVars, apiVars,
    uiVars>>

offFilter == <<treeVars, recordVars, sidecarVars, colorVars, queryVars,
    editVars, loadVars, apiVars,
    uiVars>>

offQuery == <<treeVars, recordVars, sidecarVars, colorVars, filterVars,
    editVars, loadVars, apiVars,
    uiVars>>

offEdit == <<recordVars, sidecarVars, colorVars, filterVars, queryVars,
    loadVars, apiVars,
    uiVars>>

offLoad == <<treeVars, recordVars, sidecarVars, colorVars, filterVars,
    queryVars, editVars, apiVars,
    uiVars>>

offApi == <<treeVars, recordVars, sidecarVars, colorVars, filterVars,
    queryVars, editVars, loadVars,
    uiVars>>

----------------------------------------------------------------------------
(* Frames of the server, gallery and view specifications *)

allButUi == <<treeVars, recordVars, sidecarVars, colorVars, filterVars,
    queryVars, editVars, loadVars, apiVars>>

offServer == <<allButUi, galleryVars, viewVars>>

offGallery == <<allButUi, serverVars, viewVars>>

offView == <<allButUi, serverVars, galleryVars>>

----------------------------------------------------------------------------
(* Bounds *)

\* external events in a run of Spec
MaxEvents == 2
\* external events in a run of SpecSettings
MaxSettingsEvents == 3
\* mutation handler invocations in a run
MaxInvocations == 14
\* modification times of the image file in a run of SpecRecord
MaxMtime == 2
\* calls of update and testFile in a run of SpecRecord
MaxCalls == 2
\* inline tags, and front-matter tags, of a sidecar in a run of SpecSidecar
MaxTags == 2

----------------------------------------------------------------------------
(* Character sequences *)

png == <<"p", "n", "g">>
jpg == <<"j", "p", "g">>
jpeg == <<"j", "p", "e", "g">>
bmp == <<"b", "m", "p">>
avif == <<"a", "v", "i", "f">>
webp == <<"w", "e", "b", "p">>
gif == <<"g", "i", "f">>
mp4 == <<"m", "p", "4">>
webm == <<"w", "e", "b", "m">>
ogv == <<"o", "g", "v">>
mov == <<"m", "o", "v">>
pdf == <<"p", "d", "f">>
md == <<"m", "d">>

RECURSIVE LastIndexOf(_, _, _)
LastIndexOf(s, c, i) ==
    IF i = 0 THEN 0
    ELSE IF s[i] = c THEN i
    ELSE LastIndexOf(s, c, i - 1)

RECURSIVE IndexOf(_, _, _)
IndexOf(s, c, i) ==
    IF i > Len(s) THEN 0
    ELSE IF s[i] = c THEN i
    ELSE IndexOf(s, c, i + 1)

EndsWith(s, suffix) ==
    /\ Len(s) >= Len(suffix)
    /\ SubSeq(s, Len(s) - Len(suffix) + 1, Len(s)) = suffix

LowerChar(c) ==
    CASE c = "P" -> "p"
      [] c = "N" -> "n"
      [] c = "G" -> "g"
      [] c = "M" -> "m"
      [] c = "D" -> "d"
      [] c = "F" -> "f"
      [] c = "A" -> "a"
      [] c = "B" -> "b"
      [] OTHER -> c

ToLowerCase(s) == [i \in DOMAIN s |-> LowerChar(s[i])]

RECURSIVE Trim(_)
Trim(s) ==
    IF s = <<>> THEN s
    ELSE IF Head(s) = " " THEN Trim(Tail(s))
    ELSE IF s[Len(s)] = " " THEN Trim(SubSeq(s, 1, Len(s) - 1))
    ELSE s

\* String.prototype.replace('.', ''): removes the first dot only
ReplaceFirstDot(s) ==
    LET i == IndexOf(s, ".", 1)
    IN  IF i = 0 THEN s ELSE SubSeq(s, 1, i - 1) \o SubSeq(s, i + 1, Len(s))

RECURSIVE Split(_)
Split(s) ==
    LET i == IndexOf(s, ",", 1)
    IN  IF i = 0 THEN <<s>>
        ELSE <<SubSeq(s, 1, i - 1)>> \o Split(SubSeq(s, i + 1, Len(s)))

\* TFile.extension: the characters after the last dot of the path
Extension(path) ==
    LET i == LastIndexOf(path, ".", Len(path))
    IN  IF i = 0 THEN <<>> ELSE SubSeq(path, i + 1, Len(path))

----------------------------------------------------------------------------
(* Settings *)

DEFAULT_SETTINGS_extensions ==
    {png, jpg, jpeg, bmp, avif, webp, gif, mp4, webm, ogv, mov}

ParseNoMdFilter(value) ==
    LET parts == Split(value)
        cleaned == [i \in DOMAIN parts |->
                       ToLowerCase(ReplaceFirstDot(Trim(parts[i])))]
    IN  {cleaned[i] : i \in {j \in DOMAIN parts :
            Len(ReplaceFirstDot(Trim(parts[j]))) > 0}}

\* extensionDebounce: the value of settings.extensions for a typed text
ParseExtensions(value) ==
    LET parts == Split(value)
        cleaned == [i \in DOMAIN parts |->
                       ToLowerCase(ReplaceFirstDot(Trim(parts[i])))]
    IN  {cleaned[i] : i \in {j \in DOMAIN parts :
            /\ Len(ReplaceFirstDot(Trim(parts[j]))) > 0
            /\ cleaned[j] # md}}

\* texts typed into the extension setting
ExtensionTexts ==
    { <<"p","n","g",",","m","p","4",",","p","d","f">>,     \* "png,mp4,pdf"
      <<" ",".","P","N","G",","," ","m","d">>,             \* " .PNG, md"
      <<"M","D",",",".","m","d",",",",","p","d","f">> }    \* "MD,.md,,pdf"

----------------------------------------------------------------------------
(* Media kinds *)

getMediaType(extension) ==
    LET e == ToLowerCase(extension)
    IN  IF e \in {png, jpg, jpeg, webp, avif, bmp, gif} THEN "image"
        ELSE IF e \in {mp4, webm, ogv, mov} THEN "video"
        ELSE "unknown"

----------------------------------------------------------------------------
(* Paths *)

File(name, ext) == <<name>> \o <<".">> \o ext

MediaPaths == { File("a", png), File("b", mp4), File("c", pdf) }

\* the suffix Sidecar.createIfNotExists and the mutation handlers append
SidecarSuffix == <<".", "m", "d">>

\* the suffix the upload endpoint and the views append
Sidecar_EXTENSION == <<".", "s", "i", "d", "e", "c", "a", "r", ".", "m", "d">>

SidecarPathOf(mediaPath) == mediaPath \o SidecarSuffix

UploadSidecarPathOf(filePath) == filePath \o Sidecar_EXTENSION

\* file.path.substring(0, file.path.length - 3)
StripMd(path) ==
    IF Len(path) <= 3 THEN <<>> ELSE SubSeq(path, 1, Len(path) - 3)

----------------------------------------------------------------------------
(* Finite maps *)

Put(f, k, v) == [x \in (DOMAIN f) \cup {k} |-> IF x = k THEN v ELSE f[x]]

Drop(f, k) == [x \in (DOMAIN f) \ {k} |-> f[x]]

One(t) == SetToBag({t})

Task(pc, path, aux, kind) == [pc |-> pc, path |-> path, aux |-> aux, kind |-> kind]

Fault(op, path) == [op |-> op, path |-> path]

Event(op, path, aux, sc, indexed, paired, quiet, calls) ==
    [op |-> op, path |-> path, aux |-> aux, sc |-> sc, indexed |-> indexed,
     paired |-> paired, quiet |-> quiet, calls |-> calls]

ContentAt(v, path) == IF path \in DOMAIN v THEN v[path] ELSE "none"

----------------------------------------------------------------------------
(* Index (Cache) *)

\* Cache.isSidecar: the path ends with the sidecar suffix
isSidecar(path) == EndsWith(path, SidecarSuffix)

\* Cache.removeFile: deletes the entry of the path
removeFile(c, path) == Drop(c, path)

\* Cache.addFile: inserts or overwrites by path
addFile(c, path, kind) == Put(c, path, kind)

\* the record specialization Cache.initialize / updateExtensions construct
KindOf(path) ==
    IF getMediaType(Extension(path)) = "image" THEN "image" ELSE "file"

----------------------------------------------------------------------------
(* Sidecar pairing and record construction, up to the first suspension *)

\* Sidecar.createIfNotExists: wrap the existing document, or start vault.create
createIfNotExists(mediaPath, v) ==
    IF SidecarPathOf(mediaPath) \in DOMAIN v THEN "wrap" ELSE "create"

\* MediaFile.create(file).then(addFile): resolve the sidecar, then insert
MediaFileCreate(file, kind, v) ==
    IF createIfNotExists(file, v) = "wrap"
    THEN One(Task("addFile", file, <<>>, kind))
    ELSE One(Task("vaultCreate", SidecarPathOf(file), file, kind))

\* MCImage.create(file).then(addFile)
MCImageCreate(file, v) == MediaFileCreate(file, "image", v)

----------------------------------------------------------------------------
(* Mutation handlers: the synchronous part of each callback *)

\* MutationHandler.onFileCreated: the tasks it starts
onFileCreated(file, v, exts) ==
    IF Extension(file) \notin exts THEN EmptyBag
    ELSE CASE getMediaType(Extension(file)) = "image" -> MCImageCreate(file, v)
           [] getMediaType(Extension(file)) = "unknown" -> MediaFileCreate(file, "file", v)
           [] OTHER -> EmptyBag

RepairAlways(path, v, exts) ==
    IF isSidecar(path)
    THEN [spawn |-> onFileCreated(StripMd(path), v, exts), calls |-> 1]
    ELSE [spawn |-> EmptyBag, calls |-> 0]

\* the callback of cache.isSidecar(file).then in onDeleted and onMoved
RepairSidecar(path, v, exts) ==
    IF isSidecar(path)
    THEN LET mediaPath == StripMd(path)
         IN  IF mediaPath \in DOMAIN v
             THEN [spawn |-> onFileCreated(mediaPath, v, exts), calls |-> 1]
             ELSE [spawn |-> EmptyBag, calls |-> 0]
    ELSE [spawn |-> EmptyBag, calls |-> 0]

\* MutationHandler.onDeleted
onDeleted(file, v, c, exts) ==
    LET first == IF isSidecar(file)
                 THEN One(Task("deletedIsSidecarThen", file, <<>>, "-"))
                 ELSE EmptyBag
    IN  IF Extension(file) \notin exts
        THEN [spawn |-> first, files |-> c]
        ELSE [spawn |-> first (+)
                        (IF SidecarPathOf(file) \in DOMAIN v
                         THEN One(Task("vaultDelete", SidecarPathOf(file), <<>>, "-"))
                         ELSE EmptyBag),
              files |-> removeFile(c, file)]

\* MutationHandler.onMoved
onMoved(file, oldpath, c, exts) ==
    LET first == IF isSidecar(file)
                 THEN One(Task("movedIsSidecarThen", file, <<>>, "-"))
                 ELSE EmptyBag
    IN  IF Extension(file) \notin exts
        THEN [spawn |-> first, files |-> c]
        ELSE [spawn |-> first (+)
                        One(Task("removeFileThen", file, oldpath,
                                 IF oldpath \in DOMAIN c THEN "removed" ELSE "absent")),
              files |-> removeFile(c, oldpath)]

\* the callback of cache.removeFile(oldpath).then in onMoved
onMovedRemoved(file, oldpath, removed, v) ==
    IF removed # "removed"
    THEN [spawn |-> EmptyBag, faults |-> {}]
    ELSE LET from == SidecarPathOf(oldpath)
             to == SidecarPathOf(file)
             renaming == from \in DOMAIN v
             refused == renaming /\ to \in DOMAIN v
         IN  [spawn |-> (IF renaming /\ ~refused
                         THEN One(Task("vaultRename", from, to, "-"))
                         ELSE EmptyBag)
                        (+) MediaFileCreate(file, "file", v),
              faults |-> IF refused THEN {Fault("rename-rejected", to)} ELSE {}]

----------------------------------------------------------------------------
(* Initial states: the vault after Cache.initialize has scanned it.  Every *)
(* file with a configured extension is indexed and has its sidecar.        *)

\* what the user wrote into a sidecar: different for every sidecar
Note(sidecarPath) == sidecarPath[1]

\* the sidecar front matter of an image record: Size5 is <<>> when the
\* field is absent, any other sequence is the array stored there; Colors4
\* and last_updated are 0 when absent; Rating is a field of the user's own
FrontMatter(size, colors, last_updated) ==
    [Size5 |-> size, Colors4 |-> colors, last_updated |-> last_updated,
     Rating |-> 0]

\* a call on the record at its start: the position, the locals of the code
\* and what the call has done so far; stale0, cached0 and m0 tell whether
\* lastUpdated was absent or stale, whether size and colours were cached
\* and well-formed, and the file's mtime, when the call started; forced
\* tells that the call re-read colours and size because of staleness
Call(op, q, kind, f, m) ==
    [op |-> op, pc |-> "start", q |-> q, kind |-> kind,
     last_updated |-> f.last_updated, size |-> <<>>, colors |-> 0,
     decodes |-> 0, extracts |-> 0,
     forced |-> FALSE,
     writeFailed |-> FALSE,
     stale0 |-> (f.last_updated = 0 \/ f.last_updated < m),
     cached0 |-> (Len(f.Size5) = 2 /\ f.Colors4 # 0),
     m0 |-> m]

DefaultQuery == [dimensions |-> <<>>, shape |-> {}, color |-> FALSE]

NoCall ==
    [op |-> "none", outcome |-> "none", result |-> FALSE, staleUse |-> FALSE,
     faulty |-> FALSE,
     call |-> Call("none", DefaultQuery, "none", FrontMatter(<<>>, 0, 0), 0)]

\* no image record is under study
RecordIdle ==
    /\ mtime = 0
    /\ fm = FrontMatter(<<>>, 0, 0)
    /\ procs = EmptyBag
    /\ started = 0
    /\ log = NoCall

NoTags == [cached |-> FALSE, inline |-> <<>>, isArray |-> TRUE, items |-> <<>>]

NotSet ==
    [done |-> FALSE, thrown |-> FALSE, writeFailed |-> FALSE,
     declFailed |-> FALSE, before |-> FrontMatter(<<>>, 0, 0)]

\* no sidecar is under study
SidecarIdle ==
    /\ tagsIn = NoTags
    /\ tagsOut = [done |-> FALSE, tags |-> <<>>]
    /\ setOut = NotSet

NoColors ==
    [targetH |-> 0, targetS |-> 0, targetL |-> 0, colors |-> <<>>,
     isArray |-> FALSE, threshold |-> 0]

\* no colour comparison is under study
ColorIdle ==
    /\ colorIn = NoColors
    /\ colorOut = [done |-> FALSE, result |-> FALSE]

NoFilter ==
    [q |-> DefaultQuery,
     item |-> [path |-> <<>>, meta |-> NoTags, frontmatter |-> <<>>]]

\* no list filter is under study
FilterIdle ==
    /\ filterIn = NoFilter
    /\ filterOut = [done |-> FALSE, result |-> FALSE]

ListQuery(fo, ta, ft, hf) ==
    [dimensions |-> <<>>, shape |-> {}, color |-> FALSE,
     folders |-> fo, tags |-> ta, fileTypes |-> ft, hasFrontMatter |-> hf]

\* a Query object as its constructor leaves it
NewQuery(q, option, increasing) ==
    [query |-> q, orderBy |-> option, orderIncreasing |-> increasing,
     files |-> <<>>, currentIndex |-> 0 - 1, totalFound |-> 0,
     found |-> <<>>, pc |-> "idle", pending |-> FALSE,
     item |-> [path |-> <<>>]]

NoQueryLog ==
    [calls |-> 0, changes |-> 0, changed |-> {}, tested |-> <<>>,
     out |-> <<>>, first |-> <<>>]

\* no query is under study
QueryIdle ==
    /\ indexFiles = <<>>
    /\ queryObj = NewQuery(ListQuery(<<>>, <<>>, <<>>, <<>>), "name", TRUE)
    /\ queryLog = NoQueryLog

\* no modify event is under study
EditIdle == updateLog = <<>>

\* the plugin before onload
NotLoaded ==
    [pc |-> "enabled", registered |-> FALSE, initialized |-> FALSE,
     ran |-> <<>>]

\* no start of the plugin is under study
LoadIdle == plugin = NotLoaded

NoRequest ==
    [apiKey |-> <<>>, method |-> "GET",
     authorization |-> [present |-> FALSE, value |-> <<>>],
     pathname |-> "/api/ping", body |-> "ok", exists |-> FALSE,
     folder |-> "none"]

\* no request is under study
ApiIdle ==
    /\ apiIn = NoRequest
    /\ apiOut = [done |-> FALSE, status |-> 0, created |-> {}]

\* no file tree is under study
\* no server instance made; the plugin runs on a desktop, the API is off
NoServer ==
    [server |-> 0, made |-> <<>>, desktop |-> TRUE, apiEnabled |-> FALSE,
     toggles |-> 0, saving |-> 0, last |-> [op |-> "none", instance |-> 0]]

\* no gallery is open
NoGallery ==
    [pc |-> "closed", index |-> {}, tagged |-> {}, query |-> "all",
     allItems |-> <<>>, items |-> <<>>, currentGroup |-> 0,
     isLoading |-> FALSE, listening |-> FALSE, loads |-> EmptyBag,
     fetches |-> EmptyBag, tests |-> {}, notes |-> 0, scrolls |-> 0,
     searches |-> 0, last |-> [op |-> "none", rec |-> 0, res |-> FALSE]]

\* no file is loaded in the sidecar view
NoView ==
    [open |-> FALSE, file |-> "", data |-> "", fileContent |-> "",
     pending |-> FALSE, writes |-> <<>>, reads |-> 0, loads |-> 0,
     edits |-> 0, external |-> 0, saved |-> 0, fresh |-> FALSE,
     last |-> "none"]

UiIdle ==
    /\ apiServer = NoServer
    /\ gallery = NoGallery
    /\ sidecarView = NoView

ServerIdle == apiServer = NoServer

GalleryIdle == gallery = NoGallery

ViewIdle == sidecarView = NoView

TreeIdle ==
    /\ vault = <<>>
    /\ cacheFiles = <<>>
    /\ extensions = DEFAULT_SETTINGS_extensions
    /\ tasks = EmptyBag
    /\ hist = <<>>
    /\ faults = {}
    /\ invocations = 0

\* the extension text an earlier session saved
SavedTexts == { <<"p","n","g",",","m","p","4",",","p","d","f">> }

Init ==
    /\ extensions \in {DEFAULT_SETTINGS_extensions} \cup
                      {ParseExtensions(t) : t \in SavedTexts}
    /\ \E present \in SUBSET MediaPaths :
          LET media == {p \in present : Extension(p) \in extensions}
              paths == present \cup {SidecarPathOf(p) : p \in media}
          IN  /\ vault = [q \in paths |-> IF q \in present THEN "bin" ELSE Note(q)]
              /\ cacheFiles = [p \in media |-> KindOf(p)]
    /\ tasks = EmptyBag
    /\ hist = <<>>
    /\ faults = {}
    /\ invocations = 0
    /\ RecordIdle
    /\ SidecarIdle
    /\ ColorIdle
    /\ FilterIdle
    /\ QueryIdle
    /\ EditIdle
    /\ LoadIdle
    /\ ApiIdle
    /\ UiIdle

Quiescent == tasks = EmptyBag

CanAct == invocations < MaxInvocations

MoreEvents == Len(hist) < MaxEvents

MoreSettingsEvents == Len(hist) < MaxSettingsEvents

\* the event with what held just before it: the content of the path's
\* sidecar, whether the path was indexed, (for a sidecar path) the record
\* kind of its existing, indexed media file, whether no task was pending,
\* and the number of handler invocations so far
Record(op, path, aux) ==
    Append(hist, Event(op, path, aux, ContentAt(vault, SidecarPathOf(path)),
                       path \in DOMAIN cacheFiles,
                       IF /\ StripMd(path) \in DOMAIN vault
                          /\ StripMd(path) \in DOMAIN cacheFiles
                       THEN cacheFiles[StripMd(path)] ELSE "none",
                       tasks = EmptyBag, invocations))

----------------------------------------------------------------------------
(* External events: the user or another tool changes the file tree *)

\* a media file appears; the create event runs onFileCreated
UserCreate(p) ==
    /\ CanAct
    /\ p \notin DOMAIN vault
    /\ vault' = Put(vault, p, "bin")
    /\ tasks' = tasks (+) onFileCreated(p, vault', extensions)
    /\ hist' = Record("create", p, <<>>)
    /\ invocations' = invocations + 1
    /\ UNCHANGED <<cacheFiles, extensions, faults>>

\* a file (media or sidecar) disappears; the delete event runs onDeleted
UserDelete(p) ==
    /\ CanAct
    /\ p \in DOMAIN vault
    /\ vault' = Drop(vault, p)
    /\ LET r == onDeleted(p, vault', cacheFiles, extensions)
       IN  /\ tasks' = tasks (+) r.spawn
           /\ cacheFiles' = r.files
    /\ hist' = Record("delete", p, <<>>)
    /\ invocations' = invocations + 1
    /\ UNCHANGED <<extensions, faults>>

\* the delete event of the last deleted path is delivered a second time
RefireDelete ==
    /\ CanAct
    /\ hist # <<>>
    /\ hist[Len(hist)].op = "delete"
    /\ hist[Len(hist)].path \notin DOMAIN vault
    /\ LET p == hist[Len(hist)].path
           r == onDeleted(p, vault, cacheFiles, extensions)
       IN  /\ tasks' = tasks (+) r.spawn
           /\ cacheFiles' = r.files
           /\ hist' = Record("redelete", p, <<>>)
    /\ invocations' = invocations + 1
    /\ UNCHANGED <<vault, extensions, faults>>

RenameTargets == MediaPaths \cup { File("d", jpg), File("n", md) }

\* a file is renamed or moved; the rename event runs onMoved
UserRename(p, q) ==
    /\ CanAct
    /\ p \in DOMAIN vault
    /\ q \notin DOMAIN vault
    /\ LET r == onMoved(q, p, cacheFiles, extensions)
       IN  /\ tasks' = tasks (+) r.spawn
           /\ cacheFiles' = r.files
    /\ vault' = Put(Drop(vault, p), q, vault[p])
    /\ hist' = Record("rename", p, q)
    /\ invocations' = invocations + 1
    /\ UNCHANGED <<extensions, faults>>

----------------------------------------------------------------------------
(* Continuations of the mutation handlers *)

\* cache.isSidecar(file).then(...) of onDeleted
DeletedIsSidecarThen(t) ==
    /\ CanAct
    /\ t.pc = "deletedIsSidecarThen"
    /\ LET r == RepairSidecar(t.path, vault, extensions)
       IN  /\ tasks' = (tasks (-) One(t)) (+) r.spawn
           /\ invocations' = invocations + r.calls
    /\ UNCHANGED <<vault, cacheFiles, extensions, hist, faults>>

\* cache.isSidecar(file).then(...) of onMoved
MovedIsSidecarThen(t) ==
    /\ CanAct
    /\ t.pc = "movedIsSidecarThen"
    /\ LET r == RepairSidecar(t.path, vault, extensions)
       IN  /\ tasks' = (tasks (-) One(t)) (+) r.spawn
           /\ invocations' = invocations + r.calls
    /\ UNCHANGED <<vault, cacheFiles, extensions, hist, faults>>

\* cache.removeFile(oldpath).then(removed => ...) of onMoved
RemoveFileThen(t) ==
    /\ CanAct
    /\ t.pc = "removeFileThen"
    /\ LET r == onMovedRemoved(t.path, t.aux, t.kind, vault)
       IN  /\ tasks' = (tasks (-) One(t)) (+) r.spawn
           /\ faults' = faults \cup r.faults
    /\ UNCHANGED <<vault, cacheFiles, extensions, hist, invocations>>

\* cache.addFile(mediaFile) once the record has been constructed
AddFile(t) ==
    /\ CanAct
    /\ t.pc = "addFile"
    /\ cacheFiles' = addFile(cacheFiles, t.path, t.kind)
    /\ tasks' = tasks (-) One(t)
    /\ UNCHANGED <<vault, extensions, hist, faults, invocations>>

----------------------------------------------------------------------------
(* Completion of the vault operations the handlers started *)

\* vault.create(sidecarPath, "") of Sidecar.createIfNotExists completes
VaultCreateDone(t) ==
    /\ CanAct
    /\ t.pc = "vaultCreate"
    /\ IF t.path \notin DOMAIN vault
       THEN /\ vault' = Put(vault, t.path, "")
            /\ tasks' = ((tasks (-) One(t))
                            (+) onFileCreated(t.path, vault', extensions))
                            (+) One(Task("addFile", t.aux, <<>>, t.kind))
            /\ invocations' = invocations + 1
            /\ UNCHANGED faults
       ELSE \E outcome \in {"rejected", "overwrote"} :
            /\ faults' = faults \cup {Fault("sidecar-create-" \o outcome, t.path)}
            /\ vault' = IF outcome = "overwrote" THEN Put(vault, t.path, "") ELSE vault
            /\ tasks' = (tasks (-) One(t)) (+)
                            (IF outcome = "overwrote"
                             THEN One(Task("addFile", t.aux, <<>>, t.kind))
                             ELSE EmptyBag)
            /\ UNCHANGED invocations
    /\ UNCHANGED <<cacheFiles, extensions, hist>>

\* vault.delete(sidecar) of onDeleted completes
VaultDeleteDone(t) ==
    /\ CanAct
    /\ t.pc = "vaultDelete"
    /\ IF t.path \in DOMAIN vault
       THEN /\ vault' = Drop(vault, t.path)
            /\ LET r == onDeleted(t.path, vault', cacheFiles, extensions)
               IN  /\ tasks' = (tasks (-) One(t)) (+) r.spawn
                   /\ cacheFiles' = r.files
            /\ invocations' = invocations + 1
       ELSE /\ tasks' = tasks (-) One(t)
            /\ UNCHANGED <<vault, cacheFiles, invocations>>
    /\ UNCHANGED <<extensions, hist, faults>>

\* vault.rename(oldSidecar, newSidecarPath) of onMoved completes
VaultRenameDone(t) ==
    /\ CanAct
    /\ t.pc = "vaultRename"
    /\ IF t.path \notin DOMAIN vault
       THEN /\ faults' = faults \cup {Fault("rename-missing", t.path)}
            /\ tasks' = tasks (-) One(t)
            /\ UNCHANGED <<vault, cacheFiles, invocations>>
       ELSE \E outcome \in (IF t.aux \in DOMAIN vault
                            THEN {"rejected", "overwrote"} ELSE {"done"}) :
            /\ faults' = IF outcome = "done" THEN faults
                         ELSE faults \cup {Fault("rename-" \o outcome, t.aux)}
            /\ IF outcome = "rejected"
               THEN /\ tasks' = tasks (-) One(t)
                    /\ UNCHANGED <<vault, cacheFiles, invocations>>
               ELSE /\ vault' = Put(Drop(vault, t.path), t.aux, vault[t.path])
                    /\ LET r == onMoved(t.aux, t.path, cacheFiles, extensions)
                       IN  /\ tasks' = (tasks (-) One(t)) (+) r.spawn
                           /\ cacheFiles' = r.files
                    /\ invocations' = invocations + 1
    /\ UNCHANGED <<extensions, hist>>

----------------------------------------------------------------------------
(* Upload endpoint *)

\* ApiServer.handleUpload up to its first await: vault.create(sidecarPath)
Upload(p) ==
    /\ CanAct
    /\ p \in MediaPaths
    /\ p \notin DOMAIN vault
    /\ IF UploadSidecarPathOf(p) \in DOMAIN vault
       THEN /\ faults' = faults \cup {Fault("upload-500", p)}
            /\ UNCHANGED tasks
       ELSE /\ tasks' = tasks (+) One(Task("uploadSidecar", UploadSidecarPathOf(p), p, "-"))
            /\ UNCHANGED faults
    /\ hist' = Record("upload", p, <<>>)
    /\ UNCHANGED <<vault, cacheFiles, extensions, invocations>>

\* the sidecar create of handleUpload completes; vault.createBinary starts
UploadSidecarDone(t) ==
    /\ CanAct
    /\ t.pc = "uploadSidecar"
    /\ \E outcome \in (IF t.path \in DOMAIN vault
                       THEN {"rejected", "overwrote"} ELSE {"done"}) :
          /\ vault' = IF outcome = "rejected" THEN vault
                      ELSE Put(vault, t.path, "upload")
          /\ LET binary == IF outcome = "rejected" \/ t.aux \in DOMAIN vault
                           THEN EmptyBag
                           ELSE One(Task("uploadBinary", t.aux, <<>>, "-"))
                 event == IF outcome = "done"
                          THEN onFileCreated(t.path, vault', extensions)
                          ELSE EmptyBag
             IN  tasks' = ((tasks (-) One(t)) (+) event) (+) binary
          /\ faults' = faults
                \cup (IF outcome = "done" THEN {}
                      ELSE {Fault("create-" \o outcome, t.path)})
                \cup (IF outcome = "rejected" \/ t.aux \in DOMAIN vault
                      THEN {Fault("upload-500", t.aux)} ELSE {})
          /\ invocations' = invocations + (IF outcome = "done" THEN 1 ELSE 0)
    /\ UNCHANGED <<cacheFiles, extensions, hist>>

\* vault.createBinary(filePath) of handleUpload completes
UploadBinaryDone(t) ==
    /\ CanAct
    /\ t.pc = "uploadBinary"
    /\ \E outcome \in (IF t.path \in DOMAIN vault
                       THEN {"rejected", "overwrote"} ELSE {"done"}) :
          /\ vault' = IF outcome = "rejected" THEN vault
                      ELSE Put(vault, t.path, "bin")
          /\ tasks' = (tasks (-) One(t)) (+)
                         (IF outcome = "done"
                          THEN onFileCreated(t.path, vault', extensions)
                          ELSE EmptyBag)
          /\ faults' = faults
                \cup (IF outcome = "done" THEN {}
                      ELSE {Fault("create-" \o outcome, t.path)})
                \cup (IF outcome = "rejected"
                      THEN {Fault("upload-500", t.path)} ELSE {})
          /\ invocations' = invocations + (IF outcome = "done" THEN 1 ELSE 0)
    /\ UNCHANGED <<cacheFiles, extensions, hist>>

----------------------------------------------------------------------------
(* Extension setting *)

\* Cache.updateExtensions: evict the records of removed extensions
Evict(c, exts) == [p \in {q \in DOMAIN c : Extension(q) \in exts} |-> c[p]]

\* Cache.updateExtensions: construct records for files of added extensions
Discover(v, c, exts) ==
    BagUnion({MediaFileCreate(f, KindOf(f), v) :
                 f \in {g \in DOMAIN v : Extension(g) \in exts /\ g \notin DOMAIN c}})

\* extensionDebounce: parse the text, save, reconcile the index
SetExtensions(text) ==
    /\ CanAct
    /\ extensions' = ParseExtensions(text)
    /\ cacheFiles' = Evict(cacheFiles, extensions')
    /\ tasks' = tasks (+) Discover(vault, cacheFiles, extensions')
    /\ hist' = Record("extensions", text, <<>>)
    /\ UNCHANGED <<vault, faults, invocations>>

----------------------------------------------------------------------------

\* file events, uploads and a repeated delete event, with every handler
Next ==
    \/ MoreEvents /\ (\E p \in MediaPaths : UserCreate(p)) /\ UNCHANGED offTree
    \/ MoreEvents /\ (\E p \in DOMAIN vault : UserDelete(p)) /\ UNCHANGED offTree
    \/ MoreEvents /\ (RefireDelete) /\ UNCHANGED offTree
    \/ MoreEvents /\ (\E p \in DOMAIN vault, q \in RenameTargets : UserRename(p, q)) /\ UNCHANGED offTree
    \/ MoreEvents /\ (\E p \in MediaPaths : Upload(p)) /\ UNCHANGED offTree
    \/ (\E t \in BagToSet(tasks) : DeletedIsSidecarThen(t)) /\ UNCHANGED offTree
    \/ (\E t \in BagToSet(tasks) : MovedIsSidecarThen(t)) /\ UNCHANGED offTree
    \/ (\E t \in BagToSet(tasks) : RemoveFileThen(t)) /\ UNCHANGED offTree
    \/ (\E t \in BagToSet(tasks) : AddFile(t)) /\ UNCHANGED offTree
    \/ (\E t \in BagToSet(tasks) : VaultCreateDone(t)) /\ UNCHANGED offTree
    \/ (\E t \in BagToSet(tasks) : VaultDeleteDone(t)) /\ UNCHANGED offTree
    \/ (\E t \in BagToSet(tasks) : VaultRenameDone(t)) /\ UNCHANGED offTree
    \/ (\E t \in BagToSet(tasks) : UploadSidecarDone(t)) /\ UNCHANGED offTree
    \/ (\E t \in BagToSet(tasks) : UploadBinaryDone(t)) /\ UNCHANGED offTree

Spec == Init /\ [][Next]_vars

\* create and delete events together with changes of the extension setting
NextSettings ==
    \/ MoreSettingsEvents /\ (\E p \in MediaPaths : UserCreate(p)) /\ UNCHANGED offTree
    \/ MoreSettingsEvents /\ (\E p \in DOMAIN vault : UserDelete(p)) /\ UNCHANGED offTree
    \/ MoreSettingsEvents /\ (\E text \in ExtensionTexts : SetExtensions(text)) /\ UNCHANGED offTree
    \/ (\E t \in BagToSet(tasks) : DeletedIsSidecarThen(t)) /\ UNCHANGED offTree
    \/ (\E t \in BagToSet(tasks) : AddFile(t)) /\ UNCHANGED offTree
    \/ (\E t \in BagToSet(tasks) : VaultCreateDone(t)) /\ UNCHANGED offTree
    \/ (\E t \in BagToSet(tasks) : VaultDeleteDone(t)) /\ UNCHANGED offTree

SpecSettings == Init /\ [][NextSettings]_vars

----------------------------------------------------------------------------
(* Image records: the cached attributes of one image, its update() and the *)
(* query filter.  The content of the image file is identified by its       *)
(* modification time; every await on the decoder, the colour extractor or  *)
(* the front-matter writer is a step of its own, so that calls and file    *)
(* modifications interleave.  The metadata cache is taken to show a        *)
(* front-matter write as soon as the write has completed.                  *)

\* Infinity of the dimension bounds: larger than every size that occurs
Infinity == 9

\* naturalWidth and naturalHeight of the image content at modification time v
NaturalSize(v) == <<v, 2>>

\* the palette extractColors finds in the image content at modification time v
Palette(v) == v

parseSize(size) == IF Len(size) # 2 THEN <<>> ELSE size

getShape(width, height) ==
    IF width = height THEN "square"
    ELSE IF width > height THEN "horizontal"
    ELSE "vertical"

\* dimensions are <<>> (null) or <<mindWidth, maxWidth, minHeight, maxHeight>>
Queries ==
    { DefaultQuery,
      [DefaultQuery EXCEPT !.dimensions = <<2, Infinity, 0, Infinity>>],
      [DefaultQuery EXCEPT !.dimensions = <<1, 2, 1, 2>>],
      [DefaultQuery EXCEPT !.shape = {"square"}],
      [DefaultQuery EXCEPT !.color = TRUE] }

RecordKinds == {"image", "video"}

determineTypesNone(q) == {}

determineTypes(q) ==
    IF \/ /\ q.dimensions # <<>>
          /\ q.dimensions[4] # Infinity
          /\ q.dimensions[2] # Infinity
          /\ q.dimensions[3] # 0
          /\ q.dimensions[1] # 0
       \/ q.shape # {}
       \/ q.color
    THEN {"image"} ELSE {}

\* the dimension and shape filters of testFile on a size (<<>>: undefined)
TestSize(q, size) ==
    /\ q.dimensions # <<>> =>
          ~ \/ size = <<>>
            \/ size[1] < q.dimensions[1] \/ size[1] > q.dimensions[2]
            \/ size[2] < q.dimensions[3] \/ size[2] > q.dimensions[4]
    /\ q.shape # {} =>
          ~ \/ size = <<>>
            \/ getShape(size[1], size[2]) \notin q.shape

\* lastUpdated is absent or older than the file
Stale(f, m) == f.last_updated = 0 \/ f.last_updated < m

\* testFile up to its first await on the decoder: the position it stops at,
\* or "done" with its result and the size it used; staleUse tells that a
\* cached size was used although lastUpdated was absent or stale
testFile(q, kind, f, m) ==
    LET mediaTypes == determineTypes(q)
    IN  IF mediaTypes # {} /\ kind \notin mediaTypes
        THEN [pc |-> "done", result |-> FALSE, staleUse |-> FALSE,
              size |-> <<>>]
        ELSE IF "image" \in mediaTypes
        THEN IF f.Size5 = <<>> \/ parseSize(f.Size5) = <<>>
             THEN [pc |-> "readSizeT", result |-> FALSE, staleUse |-> FALSE,
                   size |-> <<>>]
             ELSE [pc |-> "done", result |-> TestSize(q, parseSize(f.Size5)),
                   staleUse |-> Stale(f, m), size |-> parseSize(f.Size5)]
        ELSE [pc |-> "done", result |-> TRUE, staleUse |-> FALSE,
              size |-> <<>>]

\* update(), from the staleness test on
AfterSizeNeverForced(p, m) == "stamp"

AfterSize(p, m) ==
    IF p.last_updated = 0 \/ p.last_updated < m THEN "readColors2" ELSE "stamp"

\* update(), from getCachedSize on
AfterColorsAlwaysDecodes(p, f, m) == "readSize1"

AfterColors(p, f, m) ==
    IF f.Size5 = <<>> \/ parseSize(f.Size5) = <<>>
    THEN "readSize1" ELSE AfterSize(p, m)

\* update(), from its first line to its first await on the extractor, the
\* decoder or the writer
Begin(p, f, m) ==
    IF f.Colors4 = 0 THEN "readColors1" ELSE AfterColors(p, f, m)

update(f, m) ==
    LET p == Call("update", DefaultQuery, "image", f, m)
    IN  [p EXCEPT !.pc = Begin(p, f, m)]

\* Sidecar.setFrontmatterTag: the write, then the declaration of the
\* display type when one is given; every error is caught
setFrontmatterTagUncaught(f, tag, value, type, writeOk, declOk) ==
    LET declared == writeOk /\ type # "none"
    IN  [fm |-> IF writeOk THEN [f EXCEPT ![tag] = value] ELSE f,
         declFailed |-> declared /\ ~ declOk,
         thrown |-> ~ writeOk \/ (declared /\ ~ declOk)]

setFrontmatterTag(f, tag, value, type, writeOk, declOk) ==
    LET declared == writeOk /\ type # "none"
    IN  [fm |-> IF writeOk THEN [f EXCEPT ![tag] = value] ELSE f,
         declFailed |-> declared /\ ~ declOk,
         thrown |-> FALSE]

StartCall(p) ==
    /\ started < MaxCalls
    /\ started' = started + 1
    /\ procs' = procs (+) One(p)

Logged(p, outcome, result, staleUse, used) ==
    [op |-> p.op, outcome |-> outcome, result |-> result,
     staleUse |-> staleUse,
     faulty |-> log.faulty \/ outcome = "rejected" \/ p.writeFailed,
     call |-> [p EXCEPT !.pc = "done", !.size = used, !.colors = 0,
                        !.last_updated = 0]]

Finish(p0, p, outcome, result, staleUse, used) ==
    /\ procs' = procs (-) One(p0)
    /\ log' = Logged(p, outcome, result, staleUse, used)

Step(p0, p) == procs' = (procs (-) One(p0)) (+) One(p)

\* no decode, extraction or write has failed so far: a run has one failure
\* at most
NoFailureYet ==
    /\ ~ log.faulty
    /\ \A p \in BagToSet(procs) : ~ p.writeFailed

\* some caller invokes update() on the record
StartUpdate ==
    /\ StartCall(update(fm, mtime))
    /\ UNCHANGED <<mtime, fm, log>>

\* the image file is modified; the modify event runs onFileEdited, which
\* invokes update() on the record
Modify ==
    /\ mtime < MaxMtime
    /\ mtime' = mtime + 1
    /\ StartCall(update(fm, mtime'))
    /\ UNCHANGED <<fm, log>>

\* a query tests a record: the image record under study, or a video record
StartTestFile(q, kind) ==
    LET r == testFile(q, kind, fm, mtime)
        p == [Call("testFile", q, kind, fm, mtime) EXCEPT !.pc = r.pc]
    IN  /\ IF r.pc = "done"
           THEN /\ started < MaxCalls
                /\ started' = started + 1
                /\ log' = Logged(p, "ok", r.result, r.staleUse, r.size)
                /\ UNCHANGED procs
           ELSE /\ StartCall(p)
                /\ UNCHANGED log
        /\ UNCHANGED <<mtime, fm>>

\* extractColors resolves in readColors
ReadColorsDone(p) ==
    /\ p.pc \in {"readColors1", "readColors2"}
    /\ Step(p, [p EXCEPT
                    !.colors = Palette(mtime),
                    !.extracts = @ + 1,
                    !.pc = IF @ = "readColors1" THEN "writeColors1"
                           ELSE "writeColors2"])
    /\ UNCHANGED <<mtime, fm, started, log>>

\* extractColors rejects: nothing catches it on the way out of the call
ReadColorsFail(p) ==
    /\ p.pc \in {"readColors1", "readColors2"}
    /\ NoFailureYet
    /\ Finish(p, p, "rejected", FALSE, FALSE, <<>>)
    /\ UNCHANGED <<mtime, fm, started>>

\* image.decode() resolves in readSize
ReadSizeDone(p) ==
    /\ p.pc \in {"readSize1", "readSize2", "readSizeT"}
    /\ Step(p, [p EXCEPT
                    !.size = NaturalSize(mtime),
                    !.decodes = @ + 1,
                    !.forced = @ \/ p.pc = "readSize2",
                    !.pc = CASE @ = "readSize1" -> "writeSize1"
                             [] @ = "readSize2" -> "writeSize2"
                             [] OTHER -> "writeSizeT"])
    /\ UNCHANGED <<mtime, fm, started, log>>

\* image.decode() rejects: nothing catches it on the way out of the call
ReadSizeFail(p) ==
    /\ p.pc \in {"readSize1", "readSize2", "readSizeT"}
    /\ NoFailureYet
    /\ Finish(p, p, "rejected", FALSE, FALSE, <<>>)
    /\ UNCHANGED <<mtime, fm, started>>

WritePcs ==
    {"writeColors1", "writeColors2", "writeSize1", "writeSize2", "writeSizeT"}

\* setFrontmatterTag of setColors / setSize completes, and the caller goes
\* on to its next await
SetFrontmatterTagDone(p) ==
    /\ p.pc \in WritePcs
    /\ \E writeOk \in (IF NoFailureYet THEN BOOLEAN ELSE {TRUE}) :
          LET r == IF p.pc \in {"writeColors1", "writeColors2"}
                   THEN setFrontmatterTag(fm, "Colors4", p.colors, "none",
                                          writeOk, TRUE)
                   ELSE setFrontmatterTag(fm, "Size5", p.size, "none",
                                          writeOk, TRUE)
              p1 == [p EXCEPT !.writeFailed = @ \/ ~ writeOk]
          IN  /\ fm' = r.fm
              /\ IF r.thrown
                 THEN Finish(p, p1, "rejected", FALSE, FALSE, <<>>)
                 ELSE CASE p.pc = "writeColors1" ->
                             /\ Step(p, [p1 EXCEPT !.pc = AfterColors(p1, fm', mtime)])
                             /\ UNCHANGED log
                        [] p.pc = "writeSize1" ->
                             /\ Step(p, [p1 EXCEPT !.pc = AfterSize(p1, mtime)])
                             /\ UNCHANGED log
                        [] p.pc = "writeColors2" ->
                             /\ Step(p, [p1 EXCEPT !.pc = "readSize2"])
                             /\ UNCHANGED log
                        [] p.pc = "writeSize2" ->
                             /\ Step(p, [p1 EXCEPT !.pc = "stamp"])
                             /\ UNCHANGED log
                        [] OTHER ->
                             Finish(p, p1, "ok",
                                    TestSize(p.q, parseSize(fm'.Size5)), FALSE,
                                    parseSize(fm'.Size5))
    /\ UNCHANGED <<mtime, started>>

\* MediaFile.update: stamps lastUpdated with the file's current mtime
MediaFileUpdate(p) ==
    /\ p.pc = "stamp"
    /\ fm' = [fm EXCEPT !.last_updated = mtime]
    /\ Finish(p, p, "ok", FALSE, FALSE, <<>>)
    /\ UNCHANGED <<mtime, started>>

\* the record as a session finds it: the attributes cached for the content
\* of modification time 1, absent, or (the size) not a pair; the file
\* possibly modified since
InitRecord ==
    /\ TreeIdle
    /\ SidecarIdle
    /\ ColorIdle
    /\ FilterIdle
    /\ QueryIdle
    /\ EditIdle
    /\ LoadIdle
    /\ ApiIdle
    /\ UiIdle
    /\ mtime \in {1, 2}
    /\ fm \in {FrontMatter(size, colors, last_updated) :
                  size \in {<<>>, <<0>>, NaturalSize(1)},
                  colors \in {0, Palette(1)},
                  last_updated \in {0, 1}}
    /\ procs = EmptyBag
    /\ started = 0
    /\ log = NoCall

NextRecord ==
    \/ StartUpdate /\ UNCHANGED offRecord
    \/ Modify /\ UNCHANGED offRecord
    \/ (\E q \in Queries, kind \in RecordKinds : StartTestFile(q, kind)) /\ UNCHANGED offRecord
    \/ (\E p \in BagToSet(procs) : ReadColorsDone(p)) /\ UNCHANGED offRecord
    \/ (\E p \in BagToSet(procs) : ReadColorsFail(p)) /\ UNCHANGED offRecord
    \/ (\E p \in BagToSet(procs) : ReadSizeDone(p)) /\ UNCHANGED offRecord
    \/ (\E p \in BagToSet(procs) : ReadSizeFail(p)) /\ UNCHANGED offRecord
    \/ (\E p \in BagToSet(procs) : SetFrontmatterTagDone(p)) /\ UNCHANGED offRecord
    \/ (\E p \in BagToSet(procs) : MediaFileUpdate(p)) /\ UNCHANGED offRecord

SpecRecord == InitRecord /\ [][NextRecord]_vars

----------------------------------------------------------------------------
(* Sidecar: getTags and setFrontmatterTag on their own *)

SeqsUpTo(S, n) == UNION {[1..k -> S] : k \in 0..n}

\* inline body tags as the metadata cache reports them, with their marker
InlineTagStrings == { <<"#", "a">>, <<"#", "A">>, <<"#", "b">> }

\* entries of the front-matter tags field
FrontmatterTagStrings == { <<"a">>, <<"#", "a">>, <<"B">> }

\* the metadata of a sidecar: no cache entry, or inline tags with a
\* front-matter tags field that is absent, an array, or a single scalar
TagInputs ==
    {NoTags} \cup
    {[cached |-> TRUE, inline |-> i, isArray |-> TRUE, items |-> a] :
        i \in SeqsUpTo(InlineTagStrings, MaxTags),
        a \in SeqsUpTo(FrontmatterTagStrings, MaxTags)} \cup
    {[cached |-> TRUE, inline |-> i, isArray |-> FALSE, items |-> <<t>>] :
        i \in SeqsUpTo(InlineTagStrings, MaxTags),
        t \in FrontmatterTagStrings}

\* [...new Set(tags)]: the first occurrence of every string, in order
RECURSIVE Unique(_)
Unique(s) ==
    IF s = <<>> THEN <<>>
    ELSE LET init == Unique(SubSeq(s, 1, Len(s) - 1))
             last == s[Len(s)]
         IN  IF \E i \in DOMAIN init : init[i] = last
             THEN init ELSE Append(init, last)

\* t.startsWith("#") ? t.slice(1) : t
StripHash(t) == IF t # <<>> /\ Head(t) = "#" THEN Tail(t) ELSE t

getTags(c) ==
    IF ~ c.cached THEN <<>>
    ELSE LET tags == c.inline \o c.items
             lowered == [i \in DOMAIN tags |-> ToLowerCase(tags[i])]
             deduped == Unique(lowered)
         IN  [i \in DOMAIN deduped |-> StripHash(deduped[i])]

GetTags ==
    /\ ~ tagsOut.done
    /\ tagsOut' = [done |-> TRUE, tags |-> getTags(tagsIn)]
    /\ UNCHANGED <<tagsIn, setOut, fm>>

\* a caller sets a front-matter field of the user's, with or without a
\* display type; the write and the declaration succeed or fail
SetTag(type, writeOk, declOk) ==
    /\ ~ setOut.done
    /\ LET r == setFrontmatterTag(fm, "Rating", 1, type, writeOk, declOk)
       IN  /\ fm' = r.fm
           /\ setOut' = [done |-> TRUE, thrown |-> r.thrown,
                         writeFailed |-> ~ writeOk,
                         declFailed |-> r.declFailed, before |-> fm]
    /\ UNCHANGED <<tagsIn, tagsOut>>

TagTypes == {"none", "number"}

InitSidecar ==
    /\ TreeIdle
    /\ mtime = 0
    /\ fm \in {FrontMatter(<<>>, 0, 0), FrontMatter(NaturalSize(1), Palette(1), 1)}
    /\ procs = EmptyBag
    /\ started = 0
    /\ log = NoCall
    /\ tagsIn \in TagInputs
    /\ tagsOut = [done |-> FALSE, tags |-> <<>>]
    /\ setOut = NotSet
    /\ ColorIdle
    /\ FilterIdle
    /\ QueryIdle
    /\ EditIdle
    /\ LoadIdle
    /\ ApiIdle
    /\ UiIdle

NextSidecar ==
    \/ GetTags /\ UNCHANGED offSidecar
    \/ (\E type \in TagTypes, writeOk \in BOOLEAN, declOk \in BOOLEAN : SetTag(type, writeOk, declOk)) /\ UNCHANGED offSidecar

SpecSidecar == InitSidecar /\ [][NextSidecar]_vars

----------------------------------------------------------------------------
(* Colour proximity.  A target hue is in whole degrees; saturation,        *)
(* lightness and area are in tenths; the hue of a cluster is in twelfths   *)
(* of the circle (h = 6 is 0.5, i.e. 180 degrees); a threshold is in       *)
(* hundredths.  Distances are carried times 1800, which makes every term   *)
(* an integer: (hDiff / 180 + sDiff + lDiff) * area, times 1800, is        *)
(* (hDiff + 18 * sDiff10 + 18 * lDiff10) * area10, and a threshold of t    *)
(* hundredths is 18 * t.  Rounding of floating-point sums is not modelled. *)

MaxClusters == 2

Abs(x) == IF x < 0 THEN 0 - x ELSE x

Min(a, b) == IF a < b THEN a ELSE b

hueDiffNoWrap(ch, targetH) == Abs(ch - targetH)

\* the distance of two hues on the colour wheel, in degrees
hueDiff(ch, targetH) == Min(Abs(ch - targetH), 360 - Abs(ch - targetH))

\* what one cluster adds to the distance
clusterDistance(color, in) ==
    LET ch == color.h * 30
        cs == color.s
        cl == color.l
        hDiff == hueDiff(ch, in.targetH)
        sDiff == Abs(cs - in.targetS)
        lDiff == Abs(cl - in.targetL)
    IN  (hDiff + 18 * sDiff + 18 * lDiff) * color.area

\* the loop over the clusters from the i-th on, with its early exit
RECURSIVE colorLoop(_, _, _)
colorLoop(in, i, distance) ==
    IF i > Len(in.colors)
    THEN TRUE
    ELSE LET d == distance + clusterDistance(in.colors[i], in)
         IN  IF d > 18 * in.threshold
             THEN FALSE
             ELSE colorLoop(in, i + 1, d)

isColorWithinThreshold(in) ==
    IF ~ in.isArray \/ Len(in.colors) = 0
    THEN FALSE
    ELSE colorLoop(in, 1, 0)

\* red, cyan, a pale colour at the far end of the wheel, a cluster of no area
ClusterSet ==
    { [h |-> 0, s |-> 10, l |-> 5, area |-> 10],
      [h |-> 6, s |-> 10, l |-> 5, area |-> 10],
      [h |-> 12, s |-> 0, l |-> 5, area |-> 5],
      [h |-> 3, s |-> 10, l |-> 5, area |-> 0] }

ColorInputs ==
    { [targetH |-> h, targetS |-> sat, targetL |-> 5, colors |-> c,
       isArray |-> TRUE, threshold |-> t] :
          h \in {0, 90, 350, 360}, sat \in {0, 10},
          c \in SeqsUpTo(ClusterSet, MaxClusters), t \in {1, 10, 50, 100} }
    \cup
    { [targetH |-> h, targetS |-> 10, targetL |-> 5, colors |-> <<>>,
       isArray |-> FALSE, threshold |-> t] :
          h \in {0, 350}, t \in {1, 50} }

IsColorWithinThreshold ==
    /\ ~ colorOut.done
    /\ colorOut' = [done |-> TRUE, result |-> isColorWithinThreshold(colorIn)]
    /\ UNCHANGED colorIn

InitColor ==
    /\ TreeIdle
    /\ RecordIdle
    /\ SidecarIdle
    /\ colorIn \in ColorInputs
    /\ colorOut = [done |-> FALSE, result |-> FALSE]
    /\ FilterIdle
    /\ QueryIdle
    /\ EditIdle
    /\ LoadIdle
    /\ ApiIdle
    /\ UiIdle

NextColor ==
    \/ IsColorWithinThreshold /\ UNCHANGED offColor

SpecColor == InitColor /\ [][NextColor]_vars

----------------------------------------------------------------------------
(* The list filters of a query: folders, tags, file types and required     *)
(* front-matter fields.  The queries here set no dimension, shape or       *)
(* colour filter, so determineTypes returns no type, the image block of    *)
(* testFile is skipped and testFile runs without waiting.  A front-matter  *)
(* value is a string naming a literal: "0" is the number 0.                *)

StartsWith(s, prefix) ==
    /\ Len(s) >= Len(prefix)
    /\ SubSeq(s, 1, Len(prefix)) = prefix

Contains(list, x) == \E i \in DOMAIN list : list[i] = x

\* the truth value JavaScript gives a front-matter value in a condition
Truthy(v) == v \notin {"undefined", "null", "false", "0", ""}

getFrontmatterTag(item, tag) ==
    IF tag \in DOMAIN item.frontmatter
    THEN item.frontmatter[tag]
    ELSE "undefined"

folderHit(q, item) ==
    \E i \in DOMAIN q.folders : StartsWith(item.path, q.folders[i])

tagHit(q, item) ==
    \E i \in DOMAIN q.tags : Contains(getTags(item.meta), q.tags[i])

frontmatterHit(q, item) ==
    \E i \in DOMAIN q.hasFrontMatter :
        Truthy(getFrontmatterTag(item, q.hasFrontMatter[i]))

\* testFile for a query whose attribute filters are all unset
testFileLists(q, item) ==
    LET mediaTypes == determineTypes(q)
    IN  IF mediaTypes # {}
           /\ getMediaType(Extension(item.path)) \notin mediaTypes
        THEN FALSE
        ELSE IF Len(q.fileTypes) > 0
                /\ ~ Contains(q.fileTypes, Extension(item.path))
        THEN FALSE
        ELSE IF Len(q.folders) > 0 /\ ~ folderHit(q, item) THEN FALSE
        ELSE IF Len(q.tags) > 0 /\ ~ tagHit(q, item) THEN FALSE
        ELSE IF Len(q.hasFrontMatter) > 0 /\ ~ frontmatterHit(q, item)
        THEN FALSE
        ELSE TRUE

ListQueries ==
    { ListQuery(fo, ta, ft, hf) :
          fo \in {<<>>, <<<<"i">>>>, <<<<"d">>, <<"i">>>>},
          ta \in {<<>>, <<<<"a">>>>, <<<<"c">>, <<"b">>>>},
          ft \in {<<>>, <<png>>, <<pdf, mp4>>},
          hf \in {<<>>, <<"rating">>, <<"source", "rating">>} }

ListItems ==
    { [path |-> pa, meta |-> me, frontmatter |-> fr] :
          pa \in { <<"i", "/">> \o File("a", png),
                   <<"d", "/">> \o File("b", mp4),
                   File("a", png) },
          me \in { NoTags,
                   [cached |-> TRUE, inline |-> <<<<"#", "A">>>>,
                    isArray |-> TRUE, items |-> <<>>],
                   [cached |-> TRUE, inline |-> <<>>,
                    isArray |-> FALSE, items |-> <<<<"B">>>>],
                   [cached |-> TRUE, inline |-> <<<<"#", "b">>>>,
                    isArray |-> TRUE, items |-> <<<<"#", "a">>>>] },
          fr \in { <<>>,
                   [rating |-> "0"],
                   [rating |-> "5"],
                   [source |-> "x", rating |-> "0"] } }

TestFileLists ==
    /\ ~ filterOut.done
    /\ filterOut' = [done |-> TRUE,
                     result |-> testFileLists(filterIn.q, filterIn.item)]
    /\ UNCHANGED filterIn

InitFilter ==
    /\ TreeIdle
    /\ RecordIdle
    /\ SidecarIdle
    /\ ColorIdle
    /\ filterIn \in [q : ListQueries, item : ListItems]
    /\ filterOut = [done |-> FALSE, result |-> FALSE]
    /\ QueryIdle
    /\ EditIdle
    /\ LoadIdle
    /\ ApiIdle
    /\ UiIdle

NextFilter ==
    \/ TestFileLists /\ UNCHANGED offFilter

SpecFilter == InitFilter /\ [][NextFilter]_vars

----------------------------------------------------------------------------
(* getItems.  A record is what testFile and orderFiles read of it: path (it *)
(* lies in the root folder, so its name is its path), creation and         *)
(* modification time, tag metadata and front matter.  A synchronous        *)
(* stretch of getItems is one step; the Index can change between two       *)
(* steps, while getItems waits for orderFiles or for testFile.  Ordering   *)
(* by the random option is left out.                                       *)

\* calls of getItems on the Query object in a run of SpecQuery
MaxQueryCalls == 2
\* records added to or removed from the Index in a run of SpecQuery
MaxIndexChanges == 1

QueryRecord(name, ext, ctime, m) ==
    [path |-> File(name, ext), ctime |-> ctime, mtime |-> m,
     meta |-> NoTags, frontmatter |-> <<>>]

QueryRecords ==
    { QueryRecord("b", png, 2, 1),
      QueryRecord("a", png, 1, 1),
      QueryRecord("c", mp4, 1, 2) }

\* what reading an array past its end gives
Undefined ==
    [path |-> <<"undefined">>, ctime |-> 0, mtime |-> 0,
     meta |-> NoTags, frontmatter |-> <<>>]

Alphabet == <<".", "4", "a", "b", "c", "g", "m", "n", "p">>

RECURSIVE localeCompare(_, _)
localeCompare(a, b) ==
    IF a = <<>> /\ b = <<>> THEN 0
    ELSE IF a = <<>> THEN 0 - 1
    ELSE IF b = <<>> THEN 1
    ELSE IF IndexOf(Alphabet, Head(a), 1) < IndexOf(Alphabet, Head(b), 1)
    THEN 0 - 1
    ELSE IF IndexOf(Alphabet, Head(a), 1) > IndexOf(Alphabet, Head(b), 1)
    THEN 1
    ELSE localeCompare(Tail(a), Tail(b))

\* the comparator orderFiles hands to sort
compare(option, a, b) ==
    CASE option = "creationDate" -> a.ctime - b.ctime
      [] option = "modifiedDate" -> a.mtime - b.mtime
      [] option = "name" -> localeCompare(a.path, b.path)

\* Array.prototype.sort: stable
RECURSIVE sort(_, _)
sort(files, option) ==
    IF files = <<>> THEN <<>>
    ELSE LET init == sort(SubSeq(files, 1, Len(files) - 1), option)
             x == files[Len(files)]
             k == Cardinality({i \in DOMAIN init :
                                  compare(option, init[i], x) <= 0})
         IN  SubSeq(init, 1, k) \o <<x>> \o SubSeq(init, k + 1, Len(init))

reverse(files) == [i \in DOMAIN files |-> files[Len(files) + 1 - i]]

orderFiles(files, option, orderIncreasing) ==
    IF orderIncreasing
    THEN sort(files, option)
    ELSE reverse(sort(files, option))

\* testFile on an element of the snapshot: on undefined it throws at the
\* first filter that reads the item, and returns true when there is none
testItem(q, item) ==
    IF item = Undefined
    THEN IF determineTypes(q) = {} /\ q.fileTypes = <<>> /\ q.folders = <<>>
            /\ q.tags = <<>> /\ q.hasFrontMatter = <<>>
         THEN "true" ELSE "throw"
    ELSE IF testFileLists(q, item) THEN "true" ELSE "false"

InCall == queryObj.pc \in {"ordered", "testing"}

\* the wait of getItems during which the Index changes now, if any
ChangedAt == IF InCall THEN {queryObj.pc} ELSE {}

\* getItems up to the wait for orderFiles: the snapshot and its ordering
GetItems ==
    /\ queryObj.pc \in {"idle", "done"}
    /\ queryLog.calls < MaxQueryCalls
    /\ queryObj' = [queryObj EXCEPT
                       !.files = orderFiles(indexFiles, queryObj.orderBy,
                                            queryObj.orderIncreasing),
                       !.found = <<>>, !.pc = "ordered", !.pending = FALSE]
    /\ queryLog' = [queryLog EXCEPT !.calls = @ + 1, !.changed = {},
                                    !.tested = <<>>, !.out = <<>>]
    /\ UNCHANGED indexFiles

\* getItems from one wait to the next: the record just tested is kept if
\* it passed, then the loop goes on to the next element or returns
Resume ==
    /\ InCall
    /\ LET kept == queryObj.pc = "testing" /\ queryObj.pending
           found == IF kept THEN Append(queryObj.found, queryObj.item)
                    ELSE queryObj.found
           totalFound == IF kept THEN queryObj.totalFound + 1
                         ELSE queryObj.totalFound
       IN  IF queryObj.currentIndex < Len(indexFiles) - 1
           THEN LET currentIndex == queryObj.currentIndex + 1
                    item == IF currentIndex + 1 \in DOMAIN queryObj.files
                            THEN queryObj.files[currentIndex + 1]
                            ELSE Undefined
                    r == testItem(queryObj.query, item)
                IN  /\ queryObj' = [queryObj EXCEPT
                           !.found = found, !.totalFound = totalFound,
                           !.currentIndex = currentIndex, !.item = item,
                           !.pending = (r = "true"),
                           !.pc = IF r = "throw" THEN "rejected"
                                  ELSE "testing"]
                    /\ queryLog' = [queryLog EXCEPT
                           !.tested = Append(@, item)]
           ELSE /\ queryObj' = [queryObj EXCEPT
                       !.found = found, !.totalFound = totalFound,
                       !.pending = FALSE, !.pc = "done"]
                /\ queryLog' = [queryLog EXCEPT
                       !.out = found,
                       !.first = IF queryLog.calls = 1 THEN found ELSE @]
    /\ UNCHANGED indexFiles

\* a record enters the Index
IndexAdd(r) ==
    /\ queryLog.changes < MaxIndexChanges
    /\ ~ Contains(indexFiles, r)
    /\ indexFiles' = Append(indexFiles, r)
    /\ queryLog' = [queryLog EXCEPT !.changes = @ + 1,
                                    !.changed = @ \cup ChangedAt]
    /\ UNCHANGED queryObj

\* a record leaves the Index
IndexRemove(i) ==
    /\ queryLog.changes < MaxIndexChanges
    /\ indexFiles' = SubSeq(indexFiles, 1, i - 1)
                        \o SubSeq(indexFiles, i + 1, Len(indexFiles))
    /\ queryLog' = [queryLog EXCEPT !.changes = @ + 1,
                                    !.changed = @ \cup ChangedAt]
    /\ UNCHANGED queryObj

OrderByOptions == {"creationDate", "modifiedDate", "name"}

InitQuery ==
    /\ TreeIdle
    /\ RecordIdle
    /\ SidecarIdle
    /\ ColorIdle
    /\ FilterIdle
    /\ indexFiles \in {f \in SeqsUpTo(QueryRecords, Cardinality(QueryRecords)) :
                          \A i, j \in DOMAIN f : i # j => f[i] # f[j]}
    /\ queryObj \in {NewQuery(ListQuery(<<>>, <<>>, ft, <<>>), option, inc) :
                        ft \in {<<>>, <<png>>}, option \in OrderByOptions,
                        inc \in BOOLEAN}
    /\ queryLog = NoQueryLog
    /\ EditIdle
    /\ LoadIdle
    /\ ApiIdle
    /\ UiIdle

NextQuery ==
    \/ GetItems /\ UNCHANGED offQuery
    \/ Resume /\ UNCHANGED offQuery
    \/ (\E r \in QueryRecords : IndexAdd(r)) /\ UNCHANGED offQuery
    \/ (\E i \in DOMAIN indexFiles : IndexRemove(i)) /\ UNCHANGED offQuery

SpecQuery == InitQuery /\ [][NextQuery]_vars

----------------------------------------------------------------------------
(* Modify events.  The file tree holds media files, their sidecars and a   *)
(* note; the Index holds the media files of a configured extension and     *)
(* does not change.  update() is one step here: it ends with the write of  *)
(* the sidecar's front matter, and the file tree answers that write with a *)
(* modify event on the sidecar.                                            *)

\* modify events caused by the user in a run of SpecEdit
MaxEdits == 2
\* update() calls in a run of SpecEdit
MaxUpdates == 3

onFileEditedNoStrip(file, id) == One(Task("getFile", file, id, "none"))

\* onFileEdited up to cache.getFile(path): the path of a markdown file
\* loses its last three characters
onFileEdited(file, id) ==
    LET path == IF Extension(file) = md THEN StripMd(file) ELSE file
    IN  One(Task("getFile", path, id, "none"))

UserEdits == Cardinality({k \in DOMAIN hist : hist[k].op = "modify"})

\* the user or another tool changes the content of a file
UserModify(p) ==
    /\ CanAct
    /\ UserEdits < MaxEdits
    /\ p \in DOMAIN vault
    /\ tasks' = tasks (+) onFileEdited(p, Len(hist) + 1)
    /\ hist' = Record("modify", p, <<>>)
    /\ invocations' = invocations + 1
    /\ UNCHANGED <<vault, cacheFiles, extensions, faults, updateLog>>

\* cache.getFile(path) resolves: update() is called on the record, if any
GetFileThen(t) ==
    /\ t.pc = "getFile"
    /\ IF t.path \in DOMAIN cacheFiles
       THEN /\ Len(updateLog) < MaxUpdates
            /\ updateLog' = Append(updateLog, [event |-> t.aux, path |-> t.path,
                                               tree |-> vault])
            /\ tasks' = (tasks (-) One(t))
                            (+) One(Task("update", t.path, t.aux,
                                         cacheFiles[t.path]))
       ELSE /\ tasks' = tasks (-) One(t)
            /\ UNCHANGED updateLog
    /\ UNCHANGED <<vault, cacheFiles, extensions, hist, faults, invocations>>

\* update() reaches its end: the front matter of the record's sidecar is
\* written (a write to a missing sidecar fails and is dropped), and the
\* modify event of that write runs onFileEdited
UpdateDone(t) ==
    /\ CanAct
    /\ t.pc = "update"
    /\ LET sidecar == SidecarPathOf(t.path)
       IN  IF sidecar \in DOMAIN vault
           THEN /\ vault' = Put(vault, sidecar, "stamped")
                /\ tasks' = (tasks (-) One(t))
                                (+) onFileEdited(sidecar, Len(hist) + 1)
                /\ hist' = Record("written", sidecar, <<>>)
                /\ invocations' = invocations + 1
           ELSE /\ tasks' = tasks (-) One(t)
                /\ UNCHANGED <<vault, hist, invocations>>
    /\ UNCHANGED <<cacheFiles, extensions, faults, updateLog>>

InitEdit ==
    /\ extensions = DEFAULT_SETTINGS_extensions
    /\ \E present \in SUBSET MediaPaths, notes \in SUBSET {File("n", md)} :
          LET media == {p \in present : Extension(p) \in extensions}
              paths == present \cup notes \cup {SidecarPathOf(p) : p \in media}
          IN  /\ vault = [q \in paths |-> IF q \in present THEN "bin" ELSE Note(q)]
              /\ cacheFiles = [p \in media |-> KindOf(p)]
    /\ tasks = EmptyBag
    /\ hist = <<>>
    /\ faults = {}
    /\ invocations = 0
    /\ RecordIdle
    /\ SidecarIdle
    /\ ColorIdle
    /\ FilterIdle
    /\ QueryIdle
    /\ EditIdle
    /\ LoadIdle
    /\ ApiIdle
    /\ UiIdle

NextEdit ==
    \/ (\E p \in DOMAIN vault : UserModify(p)) /\ UNCHANGED offEdit
    \/ (\E t \in BagToSet(tasks) : GetFileThen(t)) /\ UNCHANGED offEdit
    \/ (\E t \in BagToSet(tasks) : UpdateDone(t)) /\ UNCHANGED offEdit

SpecEdit == InitEdit /\ [][NextEdit]_vars

----------------------------------------------------------------------------
(* The start of the plugin: onload, the layout-ready callback with the     *)
(* initial scan, and the vault events that arrive meanwhile.  A handler    *)
(* runs when an event arrives after its registration.                      *)

\* vault events in a run of SpecLoad
MaxLoadEvents == 3

VaultEvents == {"create", "delete", "rename", "modify"}

\* the constructor of MutationHandler registers the four handlers
MutationHandler(pl) == [pl EXCEPT !.registered = TRUE]

\* onload up to the registration of the layout-ready callback
Onload ==
    /\ plugin.pc = "enabled"
    /\ plugin' = [MutationHandler(plugin) EXCEPT !.pc = "loaded"]

\* the layout is ready: the callback starts cache.initialize() and waits
LayoutReady ==
    /\ plugin.pc = "loaded"
    /\ plugin' = [plugin EXCEPT !.pc = "initializing"]

\* cache.initialize() has finished and registerEvents runs.  It calls
\* mutationHandler.initializeEvents(), which MutationHandler does not
\* define: the call throws, or (defined elsewhere) returns; the handlers
\* the constructor registered stay registered either way
InitializeDone ==
    /\ plugin.pc = "initializing"
    /\ \E pc \in {"ready", "rejected"} :
          plugin' = [plugin EXCEPT !.initialized = TRUE, !.pc = pc]

\* the vault fires an event and the registered handler runs
VaultFires(op) ==
    /\ Len(plugin.ran) < MaxLoadEvents
    /\ plugin.registered
    /\ plugin' = [plugin EXCEPT
                     !.ran = Append(@, [op |-> op,
                                        initialized |-> plugin.initialized,
                                        pc |-> plugin.pc])]

InitLoad ==
    /\ TreeIdle
    /\ RecordIdle
    /\ SidecarIdle
    /\ ColorIdle
    /\ FilterIdle
    /\ QueryIdle
    /\ EditIdle
    /\ plugin = NotLoaded
    /\ ApiIdle
    /\ UiIdle

NextLoad ==
    \/ Onload /\ UNCHANGED offLoad
    \/ LayoutReady /\ UNCHANGED offLoad
    \/ InitializeDone /\ UNCHANGED offLoad
    \/ (\E op \in VaultEvents : VaultFires(op)) /\ UNCHANGED offLoad

SpecLoad == InitLoad /\ [][NextLoad]_vars

----------------------------------------------------------------------------
(* The API server.  A request meets the API key the settings tab stored;   *)
(* handleRequest answers it with a status and, for an upload, creates a    *)
(* folder, a sidecar and a media file.  Failing vault operations of an     *)
(* upload are left out here.                                               *)

Bearer == <<"B", "e", "a", "r", "e", "r", " ">>

\* what the user types into the API key field
ApiKeyTexts ==
    { <<>>, <<" ">>, <<"k">>, <<" ", "k", " ">>, <<"k", "2">> }

\* the onChange of the API key field stores the trimmed text
SetApiKey(value) == Trim(value)

\* req.headers["authorization"] ?? ""
AuthorizationOf(in) ==
    IF in.authorization.present THEN in.authorization.value ELSE <<>>

authorizedPrefix(in) ==
    in.apiKey # <<>> => StartsWith(AuthorizationOf(in), Bearer \o in.apiKey)

\* the API key check: passed when no key is configured
authorized(in) ==
    in.apiKey # <<>> => AuthorizationOf(in) = Bearer \o in.apiKey

\* handleUpload without failing vault operations
handleUpload(in) ==
    IF in.body = "invalid" THEN [status |-> 400, created |-> {}]
    ELSE IF in.body = "missing" THEN [status |-> 400, created |-> {}]
    ELSE IF in.exists THEN [status |-> 409, created |-> {}]
    ELSE [status |-> 200,
          created |-> (IF in.folder = "missing" THEN {"folder"} ELSE {})
                          \cup {"sidecar", "media"}]

handleRequest(in) ==
    IF in.method = "OPTIONS" THEN [status |-> 204, created |-> {}]
    ELSE IF ~ authorized(in) THEN [status |-> 401, created |-> {}]
    ELSE IF in.pathname = "/api/ping" /\ in.method = "GET"
    THEN [status |-> 200, created |-> {}]
    ELSE IF in.pathname = "/api/folders" /\ in.method = "GET"
    THEN [status |-> 200, created |-> {}]
    ELSE IF in.pathname = "/api/tags" /\ in.method = "GET"
    THEN [status |-> 200, created |-> {}]
    ELSE IF in.pathname = "/api/upload" /\ in.method = "POST"
    THEN handleUpload(in)
    ELSE [status |-> 404, created |-> {}]

AuthorizationHeaders ==
    { [present |-> FALSE, value |-> <<>>] } \cup
    { [present |-> TRUE, value |-> v] :
        v \in { <<>>, Bearer, Bearer \o <<"k">>, Bearer \o <<"k", "2">>,
                Bearer \o <<"k", " ">>, <<"b">> \o Tail(Bearer) \o <<"k">>,
                <<"k">> } }

Requests ==
    { [apiKey |-> SetApiKey(text), method |-> me, authorization |-> au,
       pathname |-> pa, body |-> bo, exists |-> ex, folder |-> fo] :
          text \in ApiKeyTexts, me \in {"OPTIONS", "GET", "POST"},
          au \in AuthorizationHeaders,
          pa \in {"/api/ping", "/api/folders", "/api/tags", "/api/upload",
                  "/api/other"},
          bo \in {"invalid", "missing", "ok"}, ex \in BOOLEAN,
          fo \in {"none", "missing"} }

HandleRequest ==
    /\ ~ apiOut.done
    /\ LET r == handleRequest(apiIn)
       IN  apiOut' = [done |-> TRUE, status |-> r.status,
                      created |-> r.created]
    /\ UNCHANGED apiIn

InitApi ==
    /\ TreeIdle
    /\ RecordIdle
    /\ SidecarIdle
    /\ ColorIdle
    /\ FilterIdle
    /\ QueryIdle
    /\ EditIdle
    /\ LoadIdle
    /\ UiIdle
    /\ apiIn \in Requests
    /\ apiOut = [done |-> FALSE, status |-> 0, created |-> {}]

NextApi ==
    \/ HandleRequest /\ UNCHANGED offApi

SpecApi == InitApi /\ [][NextApi]_vars

----------------------------------------------------------------------------
(* The life of the API server.  A server instance is a number; made[i]     *)
(* tells whether instance i has been closed and whether it has emitted its *)
(* error event.  listen() binds the port later, so an instance can emit    *)
(* its error after start() has returned, also after close() was called on  *)
(* it.  The toggle of the settings tab stores the value, waits for the     *)
(* settings to be saved and restarts the server.                           *)

\* server instances made in a run of SpecServer
MaxServers == 3
\* changes of the toggle in a run of SpecServer
MaxToggles == 2

Instance == [closed |-> FALSE, errored |-> FALSE]

Did(a, op, i) == [a EXCEPT !.last = [op |-> op, instance |-> i]]

start(a) ==
    IF ~a.desktop THEN a
    ELSE IF ~a.apiEnabled THEN a
    ELSE IF a.server # 0 THEN a
    ELSE [a EXCEPT !.made = Append(a.made, Instance),
                   !.server = Len(a.made) + 1]

stop(a) ==
    IF a.server # 0
    THEN [a EXCEPT !.made[a.server].closed = TRUE, !.server = 0]
    ELSE a

restart(a) == start(stop(a))

\* this.server.on("error", ...) of instance i
onError(a, i) == [a EXCEPT !.made[i].errored = TRUE, !.server = 0]

CanMake == Len(apiServer.made) < MaxServers

Start ==
    /\ CanMake
    /\ apiServer' = Did(start(apiServer), "start", 0)
    /\ UNCHANGED offServer

Stop ==
    /\ apiServer' = Did(stop(apiServer), "stop", 0)
    /\ UNCHANGED offServer

Restart ==
    /\ CanMake
    /\ apiServer' = Did(restart(apiServer), "restart", 0)
    /\ UNCHANGED offServer

\* onChange of the toggle up to await saveSettings()
ToggleChange(value) ==
    /\ apiServer.desktop
    /\ apiServer.toggles < MaxToggles
    /\ apiServer' = Did([apiServer EXCEPT !.apiEnabled = value,
                                          !.toggles = @ + 1,
                                          !.saving = @ + 1], "toggle", 0)
    /\ UNCHANGED offServer

\* onChange of the toggle after await saveSettings()
ToggleSaved ==
    /\ apiServer.saving > 0
    /\ CanMake
    /\ apiServer' = Did(restart([apiServer EXCEPT !.saving = @ - 1]),
                        "restart", 0)
    /\ UNCHANGED offServer

ServerError(i) ==
    /\ ~apiServer.made[i].errored
    /\ apiServer' = Did(onError(apiServer, i), "error", i)
    /\ UNCHANGED offServer

InitServer ==
    /\ TreeIdle
    /\ RecordIdle
    /\ SidecarIdle
    /\ ColorIdle
    /\ FilterIdle
    /\ QueryIdle
    /\ EditIdle
    /\ LoadIdle
    /\ ApiIdle
    /\ GalleryIdle
    /\ ViewIdle
    /\ \E d \in BOOLEAN, e \in BOOLEAN :
          apiServer = [NoServer EXCEPT !.desktop = d, !.apiEnabled = e]

NextServer ==
    \/ Start
    \/ Stop
    \/ Restart
    \/ \E value \in BOOLEAN : ToggleChange(value)
    \/ ToggleSaved
    \/ \E i \in 1..Len(apiServer.made) : ServerError(i)

SpecServer == InitServer /\ [][NextServer]_vars

----------------------------------------------------------------------------
(* The gallery.  A record is a number, which is also its path and its      *)
(* place in the order of the query; a display item is the record it shows. *)
(* A query is "all" (no filter) or "tagged" (a tag filter): testFile holds *)
(* for every record, or for the records that carry the tag.  The lists are *)
(* sequences, positions count from 1 and 0 is findIndex's -1.  The         *)
(* callback a handler passes to testFile(...).then, the continuation of    *)
(* each await of loadNextGroup and of the search are steps of their own.   *)
(* Whether the scrollbar shows depends on the height of the container and  *)
(* is open whenever an item is displayed.                                  *)

\* records in the Index when the gallery is made
NumRecords == 41
\* notifications in a run of SpecGallery
MaxNotes == 1
\* scroll events near the bottom in a run of SpecGallery
MaxScrolls == 1
\* searches in a run of SpecGallery
MaxSearches == 1

groupSize == 20

\* an element an assignment past the end of an array leaves empty
Hole == 0

\* the record MediaFile.create makes when record r is moved
Moved(r) == r + NumRecords

AllRecords == [i \in 1..(2 * NumRecords) |-> i]

\* Query.testFile of the gallery's query
testRecord(q, tagged, r) == q = "all" \/ r \in tagged

\* Query.getItems: the matching records of the Index in the query's order
getItems(q, index, tagged) ==
    SelectSeq(AllRecords,
              LAMBDA r : r \in index /\ testRecord(q, tagged, r))

\* Array.prototype.findIndex
findIndex(s, x) ==
    IF \E i \in DOMAIN s : s[i] = x
    THEN CHOOSE i \in DOMAIN s : s[i] = x /\ \A j \in 1..(i - 1) : s[j] # x
    ELSE 0

\* what Array.prototype.splice(i, 1) returns: the elements it removed
splice(s, i) == IF i \in DOMAIN s THEN <<s[i]>> ELSE <<>>

\* what filter would leave: the list without its i-th element
spliceRest(s, i) ==
    IF i \in DOMAIN s
    THEN SubSeq(s, 1, i - 1) \o SubSeq(s, i + 1, Len(s))
    ELSE s

\* s[i] = x
setAt(s, i, x) ==
    IF i \in DOMAIN s THEN [s EXCEPT ![i] = x]
    ELSE s \o [k \in 1..(i - Len(s) - 1) |-> Hole] \o <<x>>

\* Array.prototype.filter((item) => item !== x)
without(s, x) == SelectSeq(s, LAMBDA y : y # x)

\* the then-callback of onFileChanged, with the positions found before
onFileChangedThen(g, t) ==
    IF t.res
    THEN [g EXCEPT
            !.allItems = IF t.allFilesIndex = 0 THEN <<t.rec>> \o @ ELSE @,
            !.items = IF t.itemsIndex = 0 THEN <<t.rec>> \o @ ELSE @]
    ELSE [g EXCEPT
            !.allItems = IF t.allFilesIndex # 0
                         THEN splice(@, t.allFilesIndex) ELSE @,
            !.items = IF t.itemsIndex # 0
                      THEN splice(@, t.itemsIndex) ELSE @]

\* the then-callback of onFileMoved
onFileMovedThen(g, t) ==
    IF t.res
    THEN [g EXCEPT
            !.allItems = IF t.allFilesIndex = 0 THEN <<t.rec>> \o @
                         ELSE setAt(@, t.allFilesIndex, t.rec),
            !.items = IF t.itemsIndex = 0 THEN <<t.rec>> \o @
                      ELSE setAt(@, t.itemsIndex, t.rec)]
    ELSE [g EXCEPT
            !.allItems = IF t.allFilesIndex # 0
                         THEN splice(@, t.allFilesIndex) ELSE @,
            !.items = IF t.itemsIndex # 0
                      THEN splice(@, t.itemsIndex) ELSE @]

\* the then-callback of onNewFile
onNewFileThen(g, t) ==
    IF t.res
    THEN [g EXCEPT !.allItems = <<t.rec>> \o @, !.items = <<t.rec>> \o @]
    ELSE g

onFileRemoved(g, r) ==
    [g EXCEPT !.allItems = without(@, r), !.items = without(@, r)]

\* a handler up to testFile(...).then: the positions and the answer; seen
\* is the lists as the handler met them
Test(g, op, r, old) ==
    [op |-> op, rec |-> r,
     allFilesIndex |-> findIndex(g.allItems, old),
     itemsIndex |-> findIndex(g.items, old),
     res |-> testRecord(g.query, g.tagged, r),
     seen |-> <<g.allItems, g.items>>]

\* the chain of loadNextGroup calls that owner started has returned
returned(g, owner) ==
    IF owner = "mount" THEN [g EXCEPT !.listening = TRUE] ELSE g

\* loadNextGroup up to await tick()
loadNextGroup(g, owner) ==
    LET startIndex == g.currentGroup * groupSize
        endIndex == startIndex + groupSize
        g1 == [g EXCEPT !.isLoading = TRUE]
    IN  IF startIndex >= Len(g1.allItems) THEN returned(g1, owner)
        ELSE [g1 EXCEPT
                !.items = @ \o SubSeq(g1.allItems, startIndex + 1,
                                      IF endIndex < Len(g1.allItems)
                                      THEN endIndex ELSE Len(g1.allItems)),
                !.loads = @ (+) One([pc |-> "tick", owner |-> owner])]

isScrollbarVisible(g) == IF g.items = <<>> THEN {FALSE} ELSE BOOLEAN

Noted(g, op, r, res) ==
    [g EXCEPT !.last = [op |-> op, rec |-> r, res |-> res]]

\* onMount up to await query.getItems()
Mount ==
    /\ gallery.pc = "created"
    /\ gallery' = Noted([gallery EXCEPT !.pc = "mounting"], "mount", 0, FALSE)
    /\ UNCHANGED offGallery

\* onMount from the answer of getItems up to the first await of loadNextGroup
MountItems ==
    /\ gallery.pc = "mounting"
    /\ gallery' = Noted(loadNextGroup(
                      [gallery EXCEPT
                          !.pc = "mounted",
                          !.allItems = getItems("all", gallery.index,
                                                gallery.tagged)],
                      "mount"), "items", 0, FALSE)
    /\ UNCHANGED offGallery

\* loadNextGroup after await tick()
LoadTick(c) ==
    /\ c.pc = "tick"
    /\ gallery' = Noted([gallery EXCEPT
                            !.currentGroup = @ + 1,
                            !.loads = (@ (-) One(c))
                                        (+) One([c EXCEPT !.pc = "timeout"])],
                        "tick", 0, FALSE)
    /\ UNCHANGED offGallery

\* loadNextGroup after the timeout
LoadTimeout(c) ==
    /\ c.pc = "timeout"
    /\ \E visible \in isScrollbarVisible(gallery) :
          LET g == [gallery EXCEPT !.loads = @ (-) One(c)]
          IN  gallery' = Noted(IF ~visible THEN loadNextGroup(g, c.owner)
                               ELSE returned([g EXCEPT !.isLoading = FALSE],
                                             c.owner),
                               "timeout", 0, visible)
    /\ UNCHANGED offGallery

\* a scroll event near the bottom
onScroll ==
    /\ gallery.listening
    /\ gallery.scrolls < MaxScrolls
    /\ ~gallery.isLoading
    /\ gallery' = Noted(loadNextGroup([gallery EXCEPT !.scrolls = @ + 1],
                                      "scroll"), "scroll", 0, FALSE)
    /\ UNCHANGED offGallery

\* the timer of onSearchChange fires, up to await query.getItems()
onSearchChange(q) ==
    /\ gallery.pc # "created"
    /\ gallery.searches < MaxSearches
    /\ gallery' = Noted([gallery EXCEPT
                            !.items = <<>>, !.currentGroup = 0, !.query = q,
                            !.searches = @ + 1,
                            !.fetches = @ (+) One(q)],
                        "search", 0, FALSE)
    /\ UNCHANGED offGallery

\* the search from the answer of getItems on
SearchItems(q) ==
    /\ gallery' = Noted(loadNextGroup(
                      [gallery EXCEPT
                          !.fetches = @ (-) One(q),
                          !.allItems = getItems(q, gallery.index,
                                                gallery.tagged)],
                      "search"), "found", 0, FALSE)
    /\ UNCHANGED offGallery

CanNote == gallery.notes < MaxNotes

\* the records a notification is about
Noticed == {2, groupSize + 1}

\* a record's tags change: file-changed
FileChanged(r) ==
    /\ CanNote
    /\ r \in gallery.index
    /\ LET g == [gallery EXCEPT
                    !.notes = @ + 1,
                    !.tagged = IF r \in @ THEN @ \ {r} ELSE @ \cup {r}]
       IN  gallery' = Noted([g EXCEPT
                               !.tests = @ \cup {Test(g, "changed", r, r)}],
                           "notified", r, FALSE)
    /\ UNCHANGED offGallery

\* a record's file is moved: file-moved with the new record
FileMoved(r) ==
    /\ CanNote
    /\ r \in gallery.index
    /\ \E keeps \in BOOLEAN :
          LET g == [gallery EXCEPT
                      !.notes = @ + 1,
                      !.index = (@ \ {r}) \cup {Moved(r)},
                      !.tagged = IF keeps /\ r \in @
                                 THEN (@ \ {r}) \cup {Moved(r)}
                                 ELSE @ \ {r}]
          IN  gallery' = Noted([g EXCEPT
                                  !.tests = @ \cup
                                      {Test(g, "moved", Moved(r), r)}],
                              "notified", r, FALSE)
    /\ UNCHANGED offGallery

\* a file is created: file-created
NewFile(r) ==
    /\ CanNote
    /\ r \notin gallery.index
    /\ LET g == [gallery EXCEPT !.notes = @ + 1, !.index = @ \cup {r}]
       IN  gallery' = Noted([g EXCEPT
                               !.tests = @ \cup {Test(g, "new", r, r)}],
                           "notified", r, FALSE)
    /\ UNCHANGED offGallery

\* a file is deleted: file-removed
FileRemoved(r) ==
    /\ CanNote
    /\ r \in gallery.index
    /\ gallery' = Noted(onFileRemoved(
                          [gallery EXCEPT !.notes = @ + 1,
                                          !.index = @ \ {r},
                                          !.tagged = @ \ {r}], r),
                        "removed", r, FALSE)
    /\ UNCHANGED offGallery

\* testFile has answered: the callback of the handler runs
TestThen(t) ==
    /\ LET g == [gallery EXCEPT !.tests = @ \ {t}]
       IN  gallery' = Noted(CASE t.op = "changed" -> onFileChangedThen(g, t)
                              [] t.op = "moved" -> onFileMovedThen(g, t)
                              [] OTHER -> onNewFileThen(g, t),
                           t.op, t.rec, t.res)
    /\ UNCHANGED offGallery

InitGallery ==
    /\ TreeIdle
    /\ RecordIdle
    /\ SidecarIdle
    /\ ColorIdle
    /\ FilterIdle
    /\ QueryIdle
    /\ EditIdle
    /\ LoadIdle
    /\ ApiIdle
    /\ ServerIdle
    /\ ViewIdle
    /\ \E tagged \in {1..NumRecords, 1..(groupSize + 1), {2}} :
          gallery = [NoGallery EXCEPT !.pc = "created",
                                      !.index = 1..NumRecords,
                                      !.tagged = tagged]

NextGallery ==
    \/ Mount
    \/ MountItems
    \/ \E c \in BagToSet(gallery.loads) : LoadTick(c)
    \/ \E c \in BagToSet(gallery.loads) : LoadTimeout(c)
    \/ onScroll
    \/ \E q \in {"all", "tagged"} : onSearchChange(q)
    \/ \E q \in BagToSet(gallery.fetches) : SearchItems(q)
    \/ \E r \in Noticed : FileChanged(r)
    \/ \E r \in Noticed : FileMoved(r)
    \/ NewFile(NumRecords + 1)
    \/ \E r \in Noticed : FileRemoved(r)
    \/ \E t \in gallery.tests : TestThen(t)

SpecGallery == InitGallery /\ [][NextGallery]_vars

----------------------------------------------------------------------------
(* The sidecar view.  A content is a string; file is what the sidecar      *)
(* document holds, data what the embedded editor holds, fileContent what   *)
(* the view last loaded or saved.  vault.modify is started and not         *)
(* awaited: the writes complete later, in the order they were started.     *)
(* The modify handler skips an event that comes within two seconds of the  *)
(* view's own save: fresh says that fileContentLastEdited is less than two *)
(* seconds ago.                                                            *)

\* edits of the user in a run of SpecView
MaxViewEdits == 2
\* modifications by another tool in a run of SpecView
MaxExternal == 1

Contents == {"", "a", "b"}

\* SidecarView.saveFile
saveFile(v) ==
    IF ~v.open THEN v
    ELSE IF v.data = "" \/ v.fileContent = v.data THEN v
    ELSE [v EXCEPT !.fileContent = v.data,
                   !.fresh = TRUE,
                   !.writes = Append(@, v.data),
                   !.saved = @ + 1]

\* SidecarView.flushPendingChanges: run the pending save, cancel the timer
flushPendingChanges(v) ==
    [(IF v.pending THEN saveFile(v) ELSE v) EXCEPT !.pending = FALSE]

Viewed(v, op) == [v EXCEPT !.last = op]

\* onLoadFile with a sidecar document: the editor shows its content
OnLoadFile ==
    /\ ~sidecarView.open
    /\ sidecarView.loads = 0
    /\ sidecarView' = Viewed([sidecarView EXCEPT
                                 !.open = TRUE,
                                 !.loads = @ + 1,
                                 !.fileContent = sidecarView.file,
                                 !.data = sidecarView.file], "load")
    /\ UNCHANGED offView

\* the user changes the text: the observer calls saveDebounce
UserEdit(c) ==
    /\ sidecarView.open
    /\ sidecarView.edits < MaxViewEdits
    /\ c # sidecarView.data
    /\ sidecarView' = Viewed([sidecarView EXCEPT !.data = c,
                                                 !.edits = @ + 1,
                                                 !.pending = TRUE], "edit")
    /\ UNCHANGED offView

\* the timer of saveDebounce fires
SaveDebounce ==
    /\ sidecarView.pending
    /\ sidecarView' = Viewed([saveFile(sidecarView) EXCEPT !.pending = FALSE],
                             "save")
    /\ UNCHANGED offView

\* onUnloadFile / onClose: flush, then destroyEditor
OnUnloadFile ==
    /\ sidecarView.open
    /\ sidecarView' = Viewed([flushPendingChanges(sidecarView) EXCEPT
                                 !.open = FALSE, !.reads = 0], "unload")
    /\ UNCHANGED offView

\* a vault.modify of the view completes; its modify event reaches the
\* handler of the view
ModifyDone ==
    /\ sidecarView.writes # <<>>
    /\ sidecarView' = Viewed([sidecarView EXCEPT
              !.file = Head(sidecarView.writes),
              !.writes = Tail(@),
              !.reads = IF sidecarView.open /\ ~sidecarView.fresh
                        THEN @ + 1 ELSE @], "written")
    /\ UNCHANGED offView

\* another tool modifies the sidecar document
ExternalModify(c) ==
    /\ sidecarView.external < MaxExternal
    /\ c # sidecarView.file
    /\ sidecarView' = Viewed([sidecarView EXCEPT
              !.file = c,
              !.external = @ + 1,
              !.reads = IF sidecarView.open /\ ~sidecarView.fresh
                        THEN @ + 1 ELSE @], "external")
    /\ UNCHANGED offView

\* the modify handler after await vault.read
ReadDone ==
    /\ sidecarView.reads > 0
    /\ sidecarView' = Viewed(
          IF sidecarView.file # sidecarView.data
          THEN [sidecarView EXCEPT !.reads = @ - 1,
                                   !.data = sidecarView.file,
                                   !.fileContent = sidecarView.file]
          ELSE [sidecarView EXCEPT !.reads = @ - 1], "read")
    /\ UNCHANGED offView

\* two seconds pass after the last save of the view
TwoSecondsPass ==
    /\ sidecarView.fresh
    /\ sidecarView' = Viewed([sidecarView EXCEPT !.fresh = FALSE], "later")
    /\ UNCHANGED offView

InitView ==
    /\ TreeIdle
    /\ RecordIdle
    /\ SidecarIdle
    /\ ColorIdle
    /\ FilterIdle
    /\ QueryIdle
    /\ EditIdle
    /\ LoadIdle
    /\ ApiIdle
    /\ ServerIdle
    /\ GalleryIdle
    /\ \E c \in Contents : sidecarView = [NoView EXCEPT !.file = c]

NextView ==
    \/ OnLoadFile
    \/ \E c \in Contents : UserEdit(c)
    \/ SaveDebounce
    \/ OnUnloadFile
    \/ ModifyDone
    \/ \E c \in Contents : ExternalModify(c)
    \/ ReadDone
    \/ TwoSecondsPass

SpecView == InitView /\ [][NextView]_vars

----------------------------------------------------------------------------
(* Properties *)

Last == hist[Len(hist)]

\* the last external event was dispatched while nothing was pending and
\* everything it caused has finished
Handled(op) ==
    /\ Quiescent
    /\ hist # <<>>
    /\ Last.op = op
    /\ Last.quiet

IsMedia(path) == path \in MediaPaths

SidecarCreateFaults ==
    {f \in faults : f.op \in {"sidecar-create-rejected", "sidecar-create-overwrote"}}

Rejections ==
    {f \in faults : f.op \in {"sidecar-create-rejected", "rename-rejected",
                              "rename-missing"}}

\* C1: once the create event of a file with a configured extension has been
\* fully handled, the file has an Index record and a sidecar at P + suffix
C1_CreateIndexesAndPairs ==
    (Handled("create") /\ Extension(Last.path) \in extensions)
        => /\ Last.path \in DOMAIN cacheFiles
           /\ SidecarPathOf(Last.path) \in DOMAIN vault

\* C2: after a fully handled rename P1 -> P2 of an indexed media file whose
\* sidecar existed, the sidecar of P2 has the content the sidecar of P1 had
\* and no sidecar is left at P1 + suffix, in every interleaving
C2_RenameKeepsSidecarContent ==
    (/\ Handled("rename") /\ Len(hist) = 1 /\ IsMedia(Last.path)
     /\ Last.indexed /\ Last.sc # "none"
     /\ Extension(Last.aux) \in extensions)
        => /\ ContentAt(vault, SidecarPathOf(Last.aux)) = Last.sc
           /\ SidecarPathOf(Last.path) \notin DOMAIN vault

\* C3: after the fully handled delete event of the sidecar of an existing,
\* indexed media file P, a sidecar exists again at P + suffix and the Index
\* record of P is what it was
C3_SidecarDeleteSelfHeals ==
    (/\ Handled("delete") /\ isSidecar(Last.path)
     /\ Last.paired # "none")
        => /\ Last.path \in DOMAIN vault
           /\ StripMd(Last.path) \in DOMAIN cacheFiles
           /\ cacheFiles[StripMd(Last.path)] = Last.paired

NoRenames == \A i \in DOMAIN hist : hist[i].op \notin {"rename", "extensions"}

\* C4: Sidecar.create is safe under concurrency: of two callers that found
\* no sidecar for the same media path neither is rejected and neither
\* overwrites the other's document (without renames and setting changes,
\* only another handler's call of Sidecar.create can have created the
\* document a caller collides with)
C4_SidecarCreateRaceFree ==
    NoRenames => SidecarCreateFaults = {}

\* C5: handling the delete event of P's sidecar twice ends, in every
\* interleaving, as handling it once does: one sidecar at P + suffix, the
\* record of P in the Index, and no handler run ended in an error
C5_SidecarDeleteTwice ==
    (/\ Quiescent /\ Len(hist) = 2
     /\ hist[1].op = "delete" /\ hist[2].op = "redelete"
     /\ isSidecar(hist[1].path) /\ hist[1].paired # "none"
     /\ getMediaType(Extension(StripMd(hist[1].path))) # "video")
        => /\ hist[1].path \in DOMAIN vault
           /\ StripMd(hist[1].path) \in DOMAIN cacheFiles
           /\ Rejections = {}

\* C6: every media file has at most one sidecar document, whichever
\* component derived the sidecar path (stated for the runs whose external
\* events are uploads)
C6_OneSidecarPerMedia ==
    (\A i \in DOMAIN hist : hist[i].op = "upload") =>
    \A p \in MediaPaths \cap DOMAIN vault :
        ~ (/\ SidecarPathOf(p) \in DOMAIN vault
           /\ UploadSidecarPathOf(p) \in DOMAIN vault)

\* C7: when the delete event of media file P meets an in-flight repair of
\* P's deleted sidecar, the final state has no Index record for P and no
\* sidecar at P + suffix
C7_StaleRepairIsNoOp ==
    (/\ Quiescent /\ Len(hist) = 2
     /\ hist[1].op = "delete" /\ isSidecar(hist[1].path)
     /\ hist[1].paired # "none"
     /\ hist[2].op = "delete" /\ hist[2].path = StripMd(hist[1].path))
        => /\ hist[2].path \notin DOMAIN cacheFiles
           /\ hist[1].path \notin DOMAIN vault

C9_RepairNeverLoops ==
    /\ md \notin extensions
    /\ \A p \in DOMAIN cacheFiles : ~ isSidecar(p)
    /\ \A t \in BagToSet(tasks) :
          t.pc \in {"addFile", "vaultCreate"} => ~ isSidecar(IF t.pc = "addFile" THEN t.path ELSE t.aux)
    /\ (/\ hist # <<>> /\ Last.op = "delete" /\ Last.quiet
        /\ isSidecar(Last.path))
          => invocations <= Last.calls + 3

\* the repair of C9 ran to the end: the sidecar was deleted, recreated, and
\* the create event of the new sidecar was handled without inserting it
C9_Witness ==
    /\ Handled("delete") /\ isSidecar(Last.path)
    /\ Last.path \in DOMAIN vault
    /\ vault[Last.path] = ""
    /\ invocations = Last.calls + 3
    /\ \E i \in DOMAIN hist : hist[i].op = "extensions"

\* C10: after a fully handled rename P1 -> P2 of a media file to a
\* configured extension: if P1 was indexed, P1 has no record and P2 has one;
\* if P1 was not indexed, its sidecar has not been renamed
C10_RenameMovesRecord ==
    (/\ Handled("rename") /\ Len(hist) = 1
     /\ IsMedia(Last.path) /\ IsMedia(Last.aux)
     /\ Extension(Last.aux) \in extensions)
        => IF Last.indexed
           THEN /\ Last.path \notin DOMAIN cacheFiles
                /\ Last.aux \in DOMAIN cacheFiles
           ELSE Last.sc # "none" =>
                   ContentAt(vault, SidecarPathOf(Last.path)) = Last.sc

\* C11: after the fully handled rename event that moved the sidecar of an
\* existing, indexed image P to a different path, a sidecar document exists
\* again at P + suffix (stated for a document that stays a Markdown file)
C11_SidecarRenameSelfHeals ==
    (/\ Handled("rename") /\ Len(hist) = 1
     /\ isSidecar(Last.path) /\ Last.paired = "image"
     /\ Last.aux # Last.path /\ Extension(Last.aux) = md)
        => Last.path \in DOMAIN vault

C13_NoStaleCachedValue ==
    ~ (log.op = "testFile" /\ log.staleUse)

\* C14: in every quiescent state with lastUpdated >= mtime the cached size
\* and colours are those of the file content at that mtime, also when the
\* file was modified while an update() was in flight (stated for the runs
\* in which an update() has returned and nothing has failed)
C14_FreshMeansCurrent ==
    (/\ procs = EmptyBag
     /\ log.op = "update" /\ log.outcome = "ok" /\ ~ log.faulty
     /\ fm.last_updated >= mtime)
        => /\ fm.Size5 = NaturalSize(mtime)
           /\ fm.Colors4 = Palette(mtime)

\* C15: an update() call on a record whose lastUpdated is not older than
\* the file and whose size and colours are cached and well-formed decodes
\* nothing and extracts nothing
C15_FreshUpdateOnlyStamps ==
    (/\ log.op = "update" /\ log.outcome = "ok"
     /\ ~ log.call.stale0 /\ log.call.cached0)
        => /\ log.call.decodes = 0
           /\ log.call.extracts = 0
           /\ ~ log.call.forced

\* the fresh record of C15 was updated: nothing was read, lastUpdated was
\* stamped and the cached attributes are still there
C15_Witness ==
    /\ log.op = "update" /\ log.outcome = "ok"
    /\ ~ log.call.stale0 /\ log.call.cached0
    /\ log.call.decodes = 0 /\ log.call.extracts = 0
    /\ procs = EmptyBag /\ started = 1
    /\ fm.last_updated = mtime
    /\ Len(fm.Size5) = 2 /\ fm.Colors4 # 0

\* C16: a failing decode or colour extraction is not propagated: no
\* update() or testFile() call ends rejected
C16_FailureNotPropagated ==
    log.outcome # "rejected"

\* C17: setFrontmatterTag never throws, and when the write or the
\* display-type declaration fails the front matter is left as it was
C17_SetTagFailureLeavesFrontMatter ==
    (setOut.done /\ (setOut.writeFailed \/ setOut.declFailed))
        => /\ ~ setOut.thrown
           /\ fm = setOut.before

\* C17, amended: setFrontmatterTag never throws; when the write fails the
\* front matter is left as it was; when the display-type declaration fails
\* the value has been written
C17_SetTagNeverThrows ==
    setOut.done
        => /\ ~ setOut.thrown
           /\ setOut.writeFailed => fm = setOut.before
           /\ setOut.declFailed => fm = [setOut.before EXCEPT !.Rating = 1]

\* a write failed, was swallowed, and the front matter is as it was
C17_Witness ==
    /\ setOut.done /\ ~ setOut.thrown
    /\ setOut.writeFailed
    /\ fm = setOut.before
    /\ fm.Rating = 0

\* C18: getTags returns no string twice, also when a tag occurs with and
\* without the marker or in different letter case
C18_TagsHaveNoDuplicates ==
    tagsOut.done =>
        \A i, j \in DOMAIN tagsOut.tags :
            i # j => tagsOut.tags[i] # tagsOut.tags[j]

\* C19: when the query carries dimension bounds, testFile returns true only
\* for an image record whose width and height lie within the bounds
C19_DimensionBoundsFilter ==
    (/\ log.op = "testFile" /\ log.outcome = "ok"
     /\ log.call.q.dimensions # <<>>
     /\ log.result)
        => /\ log.call.kind = "image"
           /\ log.call.size # <<>>
           /\ log.call.size[1] >= log.call.q.dimensions[1]
           /\ log.call.size[1] <= log.call.q.dimensions[2]
           /\ log.call.size[2] >= log.call.q.dimensions[3]
           /\ log.call.size[2] <= log.call.q.dimensions[4]

\* C20: with a shape or colour filter a non-image record fails without any
\* decode; for an image record the shape filter passes iff the shape of its
\* size is requested; without dimension, shape and colour filter testFile
\* never decodes the size
C20_ShapeFilterAndNoNeedlessDecode ==
    /\ (/\ log.op = "testFile"
        /\ (log.call.q.shape # {} \/ log.call.q.color)
        /\ log.call.kind # "image")
          => ~ log.result /\ log.call.decodes = 0 /\ log.call.size = <<>>
    /\ (/\ log.op = "testFile" /\ log.outcome = "ok"
        /\ log.call.kind = "image"
        /\ log.call.q.shape # {} /\ log.call.q.dimensions = <<>>)
          => (log.result <=>
                /\ log.call.size # <<>>
                /\ getShape(log.call.size[1], log.call.size[2]) \in log.call.q.shape)
    /\ (log.op = "testFile" /\ log.call.q = DefaultQuery)
          => log.result /\ log.call.decodes = 0 /\ log.call.size = <<>>
    /\ \A p \in BagToSet(procs) :
          p.op = "testFile" => p.kind = "image" /\ p.q # DefaultQuery

\* the shape filter of C20 decoded the size of an image and let it pass
C20_Witness ==
    /\ log.op = "testFile" /\ log.outcome = "ok"
    /\ log.call.kind = "image" /\ log.call.q.shape = {"square"}
    /\ log.call.decodes = 1
    /\ log.result

\* the colour target of a query and the threshold applied when none is given
QueryColor == [targetH |-> 0, targetS |-> 10, targetL |-> 5]

DefaultThreshold == 50

\* the palette cached under a content id: none, or one cyan cluster for an
\* odd id and one red cluster for an even id
CachedPalette(v) ==
    [targetH |-> QueryColor.targetH, targetS |-> QueryColor.targetS,
     targetL |-> QueryColor.targetL,
     colors |-> IF v = 0 THEN <<>>
               ELSE <<[h |-> 6 * (v % 2), s |-> 10, l |-> 5, area |-> 10]>>,
     isArray |-> v # 0, threshold |-> DefaultThreshold]

\* C21: with a colour target in the query, testFile returns true for an
\* image record only if the weighted distance between the target and the
\* record's cached palette is within the threshold.
C21_ColorFilterApplied ==
    [][(/\ log' # log
        /\ log'.op = "testFile"
        /\ log'.call.kind = "image"
        /\ log'.call.q.color
        /\ log'.result = TRUE)
       => isColorWithinThreshold(CachedPalette(fm'.Colors4))]_vars

\* the weighted distance of the whole palette, without any early exit
RECURSIVE WeightedDistance(_, _)
WeightedDistance(in, i) ==
    IF i > Len(in.colors)
    THEN 0
    ELSE LET c == in.colors[i]
             away == Abs(30 * c.h - in.targetH)
             wheel == IF away < 360 - away THEN away ELSE 360 - away
         IN  (wheel + 18 * Abs(c.s - in.targetS) + 18 * Abs(c.l - in.targetL))
                 * c.area
             + WeightedDistance(in, i + 1)

\* C22: isColorWithinThreshold returns false for an empty or missing
\* palette, and otherwise true iff the weighted distance summed over all the
\* clusters is at most the threshold; the early exit never changes the
\* result.
C22_ColorDistanceWithinThreshold ==
    colorOut.done =>
        colorOut.result =
            (/\ colorIn.isArray
             /\ Len(colorIn.colors) > 0
             /\ WeightedDistance(colorIn, 1) <= 18 * colorIn.threshold)

\* a palette of two clusters whose first already exceeds the threshold was
\* compared: the loop left early
C22_Witness ==
    /\ colorOut.done
    /\ Len(colorIn.colors) = MaxClusters
    /\ clusterDistance(colorIn.colors[1], colorIn) > 18 * colorIn.threshold
    /\ clusterDistance(colorIn.colors[2], colorIn) > 0
    /\ ~ colorOut.result

\* the tags a sidecar carries, as written in its body and its front matter
RawTags(item) ==
    IF item.meta.cached
    THEN {item.meta.inline[i] : i \in DOMAIN item.meta.inline}
         \cup {item.meta.items[i] : i \in DOMAIN item.meta.items}
    ELSE {}

Carries(item, tag) ==
    \E raw \in RawTags(item) : ToLowerCase(StripHash(raw)) = tag

\* a front-matter field has a value when it is present and not left empty
HasValue(item, field) ==
    /\ field \in DOMAIN item.frontmatter
    /\ item.frontmatter[field] \notin {"undefined", "null"}

\* C23: testFile is the conjunction of the active list filters, with a
\* disjunction inside each list: some listed folder is a prefix of the path,
\* some listed tag is carried by the sidecar, the extension is listed, some
\* listed front-matter field has a value; an empty list imposes no
\* constraint, so a query of empty lists accepts every record.
C23_ListFiltersConjunction ==
    LET q == filterIn.q
        item == filterIn.item
    IN  filterOut.done =>
            filterOut.result =
                (/\ q.folders = <<>> \/
                        \E i \in DOMAIN q.folders :
                            SubSeq(item.path, 1, Len(q.folders[i]))
                                = q.folders[i]
                 /\ q.tags = <<>> \/
                        \E i \in DOMAIN q.tags : Carries(item, q.tags[i])
                 /\ q.fileTypes = <<>> \/
                        \E i \in DOMAIN q.fileTypes :
                            q.fileTypes[i] = Extension(item.path)
                 /\ q.hasFrontMatter = <<>> \/
                        \E i \in DOMAIN q.hasFrontMatter :
                            HasValue(item, q.hasFrontMatter[i]))

\* the records of a snapshot that pass the query's filter, in order
Matches(files, q) == SelectSeq(files, LAMBDA r : testFileLists(q, r))

\* a snapshot lies in the order the query asks for
Ordered(files, option, increasing) ==
    \A i, j \in DOMAIN files :
        i < j => IF increasing
                 THEN compare(option, files[i], files[j]) <= 0
                 ELSE compare(option, files[i], files[j]) >= 0

\* C24: getItems returns exactly the records of the Index that satisfy
\* testFile, in non-decreasing order of the sort key when orderIncreasing is
\* set and in the reversed order otherwise, as a subsequence of the sorted
\* snapshot.
C24_GetItemsFilteredAndOrdered ==
    queryObj.pc = "done" =>
        /\ Ordered(queryObj.files, queryObj.orderBy, queryObj.orderIncreasing)
        /\ queryLog.out = Matches(queryObj.files, queryObj.query)

\* C25: when the Index changes while getItems waits, the call still tests
\* every record of its snapshot exactly once, nothing outside the snapshot,
\* and never an element that is missing.
C25_SnapshotTestedOnce ==
    (/\ queryLog.calls = 1
     /\ queryLog.changed = {"testing"}
     /\ queryObj.pc \in {"done", "rejected"})
    => queryLog.tested = queryObj.files

\* the first call on a Query object during which the Index does not change
\* returns the matching records of the ordered snapshot
QuietFirstCallFilteredAndOrdered ==
    (queryObj.pc = "done" /\ queryLog.calls = 1 /\ queryLog.changed = {}) =>
        /\ Ordered(queryObj.files, queryObj.orderBy, queryObj.orderIncreasing)
        /\ queryLog.out = Matches(queryObj.files, queryObj.query)
        /\ queryLog.tested = queryObj.files

\* the Index records a modify event on the path is about: the record of the
\* path itself, or the record whose sidecar the path is
RecordsFor(path) ==
    {P \in DOMAIN cacheFiles : path = P \/ path = P \o <<".", "m", "d">>}

\* the handler of the k-th event has received the answer of cache.getFile
Resolved(k) == \A t \in BagToSet(tasks) : ~ (t.pc = "getFile" /\ t.aux = k)

UpdatesOf(k) == {i \in DOMAIN updateLog : updateLog[i].event = k}

C28_NoHandlerBeforeInitialize ==
    \A i \in DOMAIN plugin.ran : plugin.ran[i].initialized

\* the Authorization header of the request is exactly "Bearer <key>"
ExactBearer ==
    /\ apiIn.authorization.present
    /\ Len(apiIn.authorization.value) = 7 + Len(apiIn.apiKey)
    /\ SubSeq(apiIn.authorization.value, 1, 7)
           = <<"B", "e", "a", "r", "e", "r", " ">>
    /\ SubSeq(apiIn.authorization.value, 8, Len(apiIn.authorization.value))
           = apiIn.apiKey

\* C29: with an API key configured, every request other than an OPTIONS
\* preflight whose Authorization header is not exactly "Bearer <key>" is
\* answered with 401 and creates no folder, sidecar or media file; with an
\* empty key no request is answered with 401.
C29_ApiKeyGuardsRequests ==
    apiOut.done =>
        /\ (apiIn.apiKey # <<>> /\ apiIn.method # "OPTIONS" /\ ~ ExactBearer)
              => (apiOut.status = 401 /\ apiOut.created = {})
        /\ apiIn.apiKey = <<>> => apiOut.status # 401
        /\ (/\ apiIn.apiKey = <<>>
            /\ apiIn.method = "POST" /\ apiIn.pathname = "/api/upload"
            /\ apiIn.body = "ok" /\ ~ apiIn.exists)
              => (apiOut.status = 200 /\ "media" \in apiOut.created)

\* an upload whose header names a longer key than the configured one was
\* answered with 401
C29_Witness ==
    /\ apiOut.done
    /\ apiIn.apiKey = <<"k">>
    /\ apiIn.authorization.present
    /\ apiIn.authorization.value
           = <<"B", "e", "a", "r", "e", "r", " ", "k", "2">>
    /\ apiIn.method = "POST"
    /\ apiIn.pathname = "/api/upload"
    /\ apiIn.body = "ok"
    /\ ~ apiIn.exists
    /\ apiOut.status = 401

\* C30: after a successful upload and the handling of the create events it
\* causes, the sidecar paired with the uploaded media file is the document
\* the server created, with the uploaded tags and source fields, and no
\* second, empty sidecar has been created for the media file (stated for
\* an uploaded image of a configured extension).
C30_UploadedSidecarIsThePair ==
    (/\ Handled("upload") /\ Len(hist) = 1
     /\ Last.path \in DOMAIN vault
     /\ Extension(Last.path) \in extensions
     /\ getMediaType(Extension(Last.path)) = "image"
     /\ Fault("upload-500", Last.path) \notin faults)
        => /\ ContentAt(vault, SidecarPathOf(Last.path)) = "upload"
           /\ \A q \in {SidecarPathOf(Last.path),
                        UploadSidecarPathOf(Last.path)} :
                 ContentAt(vault, q) # ""

\* the server instances that are neither closed nor failed
Live(a) ==
    {i \in 1..Len(a.made) : ~a.made[i].closed /\ ~a.made[i].errored}

\* C31: the ApiServer holds at most one server instance, and no instance it
\* does not hold is left open; start() makes none on a non-desktop platform,
\* with apiEnabled false or with an instance held; after stop() none is
\* held; the error event of an earlier instance leaves the reference to a
\* later one in place.
C31_OneServerInstance ==
    [][LET a == apiServer
           b == apiServer'
       IN  /\ Live(b) \subseteq {b.server}
           /\ (b.last.op = "start"
                 /\ (~a.desktop \/ ~a.apiEnabled \/ a.server # 0))
                  => (b.made = a.made /\ b.server = a.server)
           /\ b.last.op = "stop" => b.server = 0
           /\ (b.last.op = "error" /\ a.server # b.last.instance)
                  => b.server = a.server]_vars

\* the existing files whose extension is configured
ConfiguredFiles == {p \in DOMAIN vault : Extension(p) \in extensions}

\* C32: in every quiescent state the paths of the Index are the existing
\* files with a configured extension (stated for the runs the claim names:
\* those whose events are renames)
C32_IndexIsConfiguredFiles ==
    (/\ Quiescent
     /\ \A i \in 1..Len(hist) : hist[i].op = "rename")
        => DOMAIN cacheFiles = ConfiguredFiles

IsImage(path) == getMediaType(Extension(path)) = "image"

\* the front matter of a square image whose attributes are cached and fresh
SquareFresh == FrontMatter(NaturalSize(2), Palette(1), 1)

\* C33: after the fully handled rename of an indexed image to another image
\* path of a configured extension, the record of the new path is an image
\* record, and every query that matches the image record matches it
C33_RenameKeepsRecordKind ==
    (/\ Handled("rename") /\ Len(hist) = 1
     /\ Last.indexed /\ IsImage(Last.path) /\ IsImage(Last.aux)
     /\ Extension(Last.aux) \in extensions
     /\ Last.aux \in DOMAIN cacheFiles)
        => /\ cacheFiles[Last.aux] = "image"
           /\ \A q \in Queries :
                 testFile(q, "image", SquareFresh, 1).result
                    => testFile(q, cacheFiles[Last.aux], SquareFresh, 1).result

\* C34: one modify event quiesces.  update() is a function of the record
\* and the file tree, so a chain of update() calls that comes back to a
\* call on the same record in the same file tree goes on forever: in a run
\* with one modify event of the user, no two update() calls start on the
\* same record in the same file tree.
C34_ModifyQuiesces ==
    UserEdits = 1 =>
        \A i, j \in DOMAIN updateLog :
            (i < j /\ updateLog[i].path = updateLog[j].path)
                => updateLog[i].tree # updateLog[j].tree

\* C35: getItems is repeatable: the second call on a Query object, with the
\* Index unchanged since the object was made, returns the list the first
\* call returned
C35_GetItemsRepeatable ==
    (/\ queryObj.pc = "done"
     /\ queryLog.calls = 2
     /\ queryLog.changes = 0)
        => queryLog.out = queryLog.first

\* C36: one update() call decodes the size of the image at most once and
\* extracts its palette at most once, whatever the sidecar held when the
\* call started
C36_UpdateReadsOnce ==
    log.op = "update" =>
        /\ log.call.decodes <= 1
        /\ log.call.extracts <= 1

\* C37: an upload answered with status 500 leaves no document behind: when
\* the only upload request of a run, made before any other event, has
\* failed, no sidecar document of the upload exists for its media path
C37_FailedUploadLeavesNothing ==
    \A p \in MediaPaths :
        (/\ hist # <<>>
         /\ hist[1].op = "upload" /\ hist[1].path = p
         /\ \A k \in DOMAIN hist : k > 1 => hist[k].op # "upload"
         /\ Fault("upload-500", p) \in faults)
            => UploadSidecarPathOf(p) \notin DOMAIN vault

\* how often x occurs in s
Count(s, x) == Cardinality({i \in DOMAIN s : s[i] = x})

\* the record a displayed entry stood for before the notification
Displayed(note) ==
    IF note.op = "moved" THEN note.rec - NumRecords ELSE note.rec

\* C38: the callback of a file-changed or file-moved notification for a
\* record that does not satisfy the query takes that record, and nothing
\* else, out of allItems and items and keeps the order of the rest; for a
\* record that satisfies the query the record is in both lists once
\* (stated for a callback that meets the lists as its handler saw them).
C38_NotificationKeepsOthers ==
    [][LET a == gallery
           b == gallery'
       IN  (/\ b.last.op \in {"changed", "moved"}
            /\ \E t \in a.tests :
                  /\ b.tests = a.tests \ {t}
                  /\ t.seen = <<a.allItems, a.items>>)
              => IF b.last.res
                 THEN /\ Count(b.allItems, b.last.rec) = 1
                      /\ Count(b.items, b.last.rec) = 1
                 ELSE /\ b.allItems = without(a.allItems, Displayed(b.last))
                      /\ b.items = without(a.items, Displayed(b.last))]_vars

\* no call of loadNextGroup and no search waits
NoLoadInFlight ==
    /\ gallery.pc = "mounted"
    /\ gallery.loads = EmptyBag
    /\ gallery.fetches = EmptyBag

\* C39: whenever no page load is in flight (and no notification has come),
\* allItems is the result of the current query and the displayed items are
\* its first k whole groups of 20, in order, for some k
C39_PagingIsPrefix ==
    (NoLoadInFlight /\ gallery.notes = 0)
        => /\ gallery.allItems = getItems(gallery.query, gallery.index,
                                          gallery.tagged)
           /\ \E k \in 0..(Len(gallery.allItems) \div groupSize + 1) :
                 gallery.items =
                    SubSeq(gallery.allItems, 1,
                           Min(k * groupSize, Len(gallery.allItems)))

\* the user has edited, the view has flushed, and nothing is under way
Flushed ==
    /\ sidecarView.edits > 0
    /\ sidecarView.external = 0
    /\ ~sidecarView.pending
    /\ sidecarView.writes = <<>>
    /\ sidecarView.reads = 0

\* C40: once the user has edited the text and the pending changes are
\* flushed and written, the sidecar document holds the editor's content,
\* whatever that content is; and a save writes only a content that differs
\* from the one the view last loaded or saved.
C40_FlushedFileIsEditor ==
    /\ Flushed => sidecarView.file = sidecarView.data
    /\ \A i \in 1..(Len(sidecarView.writes) - 1) :
          sidecarView.writes[i] # sidecarView.writes[i + 1]

====
